---- MODULE Spec2Model ----
(***************************************************************************)
(* Verification model of the DroneCAN batch updater.                       *)
(*                                                                         *)
(*   SpecA   Phase A and the orchestrator: BatchFirmwareUpdater.run,       *)
(*           CubeUpdater.update_devices and its pool of cube workers.      *)
(*   SpecReg the peer registry of one CAN transport (DroneCANNode) with    *)
(*           the progress rows it maintains and the drivers it starts.     *)
(*   SpecDrv the per-peer update driver (DroneCaNMonitor) of one peer.     *)
(*   SpecFw  the firmware bundle loader and its CRC (class firmware);      *)
(*           SpecFwLive adds the fairness of the constructor's loops.      *)
(*   SpecUp  the bootloader client's upload sequence (uploader.upload).    *)
(*   SpecUI  the console buffer of ProgressUI.                             *)
(*   SpecStop the monitor, one peer and the interrupt that stops them.     *)
(*   SpecDrvLive SpecDrv with the fairness of the update thread's loops.   *)
(*   SpecRows Phase A followed by Phase B, for the progress rows.          *)
(*   SpecDisplay the unified display of ProgressUI and its throttle.       *)
(*   SpecFs  two peers of one transport up to their file servers.          *)
(*   SpecFind, SpecFindLive the find-bootloader loops.                     *)
(*   SpecErase, SpecEraseLive the erase stages of an upload.               *)
(*   SpecLock the lock of ProgressUI.                                      *)
(***************************************************************************)
EXTENDS Integers, Sequences, FiniteSets, TLC

(***************************************************************************)
(* Bounds of the model.                                                    *)
(***************************************************************************)
\* number of serial ports that can carry a cube, and of cubes to update
MaxCubes == 2
\* number of glob patterns of ports_to_try that match a port
MaxPatterns == 2

Ports == 1..MaxCubes

\* percentages the upload subprocess prints on its progress lines
Percents == {0, 50, 100}

\* number of node ids above the reserved range that peers may use
MaxNodeIds == 2
\* number of distinct hardware unique ids on the bus
MaxUIDs == 2
\* number of RemoteDroneCANNode objects ever created on the transport
MaxRecs == 2
\* step between the progress percentages a bootloader reports while erasing
PctStep == 5
\* length of the list of flight-stack baud rates given to an uploader
MaxBauds == 3
\* number of times the clock advances
MaxTicks == 2
\* reading of time.time() when the transport is created
Epoch == 100
\* size of the firmware file in kilobytes
FirmwareKB == 3

(***************************************************************************)
(* Program constants.                                                      *)
(***************************************************************************)
\* node ids up to this one are reserved for autopilots
RESERVED_NODE_IDS == 20
\* DroneCaNMonitor.node_id, the local node id
LOCAL_NODE_ID == 100
\* _cleanup_stale_nodes: stale_threshold
STALE_THRESHOLD == 20
\* the only bus number start_monitoring tests
BUS_NUMBER == 2
\* _wait_for_operational_and_get_version: timeout
OPERATIONAL_TIMEOUT == 10
\* _perform_dronecan_update: maintenance_timeout and restart_interval
MAINTENANCE_TIMEOUT == 30
RESTART_INTERVAL == 5
\* _perform_dronecan_update: period of the BeginFirmwareUpdate requests
REQUEST_INTERVAL == 1
\* _perform_dronecan_update: timeout of the final wait
UPDATE_TIMEOUT == 1200
\* _start_bootloader_update: period of the parameter requests, timeout_duration
BOOTLOADER_INTERVAL == 5
BOOTLOADER_TIMEOUT == 30

\* node ids peers answer from: above the reserved range, not the local one
NodeIds == {n \in (RESERVED_NODE_IDS + 5)..(RESERVED_NODE_IDS + 4 + MaxNodeIds) :
              n # LOCAL_NODE_ID}
UIDs == 1..MaxUIDs

\* port path of the transport, by path component
PORT == <<"dev", "ttyACM2">>

VARIABLES
    \* ---- orchestrator (main.py) ----
    run_pc,              \* position of BatchFirmwareUpdater.run
    skip_cube_update,    \* --skip-cube-update
    auto_yes,            \* -y
    exit_code,           \* value returned by run (-1 while running)
    monitoring_started,  \* DroneCaNMonitor.start_monitoring has been called
    \* ---- cube updater (cube_updater.py) ----
    devices,             \* devices_needing_update: sequence of port paths
    cube_devices,        \* ProgressUI.cube_devices: port -> row
    submitted,           \* number of futures submitted to the executor
    wpc,                 \* position of each worker (_update_single_device)
    wres,                \* result of each future: "none", "true", "false"
    collected,           \* futures already yielded by as_completed
    success_count,       \* update_devices.success_count
    update_result,       \* value returned by update_devices: "none", "true", "false"
    \* ---- one CAN transport (dronecan_node.py) ----
    now,                 \* time.time()
    ticks,               \* number of clock advances so far
    recs,                \* RemoteDroneCANNode objects, by creation order
    discovered_nodes,    \* DroneCANNode.discovered_nodes: node id -> object
    processed_nodes,     \* DroneCANNode.processed_nodes
    callbacks,           \* new_node_callback / node_removed_callback are set
    immediate_done,      \* _start_immediate_updates has run on the transport
    dronecan_devices,    \* ProgressUI.dronecan_devices: device key -> row
    new_peer_events,     \* calls of new_node_callback so far
    removed_events,      \* calls of node_removed_callback so far
    node_log_last,       \* last line the registry wrote to the console
    \* ---- update drivers (dronecan_monitor.py) ----
    drv,                 \* update threads started, by start order
    \* ---- serial ports (cube_updater.py, uploader.py) ----
    handles,             \* port -> owners of an open serial.Serial on it
    \* ---- firmware bundle and bootloader client (uploader.py) ----
    fw,                  \* the firmware object
    up,                  \* the uploader object and the commands it has sent
    \* ---- console (progress_ui.py) ----
    console_buffer,      \* ProgressUI.console_buffer
    console_pending,     \* add_console_output calls waiting for the lock
    console_seq,         \* lines appended to the buffer so far
    \* ---- DroneCaNMonitor and its process ----
    monitor,             \* running flag, stop request, open CAN node, process alive
    \* ---- unified display (progress_ui.py) ----
    display              \* throttle, lock and callers of the refresh; renders

varsA == <<run_pc, skip_cube_update, auto_yes, exit_code, monitoring_started,
           devices, cube_devices, submitted, wpc, wres, collected, success_count,
           update_result, handles>>

varsReg == <<now, ticks, recs, discovered_nodes, processed_nodes, callbacks,
             immediate_done, dronecan_devices, new_peer_events,
             removed_events, node_log_last>>

varsExt == <<fw, up, console_buffer, console_pending, console_seq, monitor, display>>

vars == <<varsA, varsReg, drv, varsExt>>

\* no firmware object, no uploader object, an empty console, a display
\* that is not followed
InitExt ==
    /\ fw = [pc |-> "none"]
    /\ up = [pc |-> "none"]
    /\ console_buffer = <<>>
    /\ console_pending = <<>>
    /\ console_seq = 0
    /\ display = [active |-> FALSE]

\* DroneCaNMonitor.__init__ (running = False); stop: the interrupt that asks
\* for the stop has arrived; node_open: the transport's CAN node runtime exists
\* and node.close() was not called; alive: the process has not exited
Monitor(node) == [running |-> FALSE, stop |-> FALSE, node_open |-> node, alive |-> TRUE]

(***************************************************************************)
(* Progress rows (progress_ui.py).                                         *)
(***************************************************************************)
Row(st, pr) == [status |-> st, progress |-> pr]

\* ProgressUI.update_cube_progress: only an existing row is changed
update_cube_progress(rows, id, st, pr) ==
    IF id \in DOMAIN rows THEN [rows EXCEPT ![id] = Row(st, pr)] ELSE rows

\* ProgressUI.add_cube_device: the row is (re)created as queued
add_cube_device(rows, id) ==
    [k \in (DOMAIN rows) \cup {id} |-> IF k = id THEN Row("queued", 0) ELSE rows[k]]

\* rows of a sequence of devices, added one after the other
RECURSIVE AddCubeRows(_, _)
AddCubeRows(rows, ds) ==
    IF ds = <<>> THEN rows
    ELSE AddCubeRows(add_cube_device(rows, Head(ds)), Tail(ds))

Range(s) == {s[i] : i \in DOMAIN s}

\* sorted(glob.glob(pattern)) for a pattern that matches the port paths S
RECURSIVE sorted(_)
sorted(S) ==
    IF S = {} THEN <<>>
    ELSE LET m == CHOOSE x \in S : \A y \in S : x <= y
         IN <<m>> \o sorted(S \ {m})

\* uploader.ports_to_try: the matches of each pattern, one pattern after the
\* other (globs[k] is the set of port paths pattern k matches)
RECURSIVE ports_to_try(_)
ports_to_try(globs) ==
    IF globs = <<>> THEN <<>>
    ELSE sorted(Head(globs)) \o ports_to_try(Tail(globs))

\* what the patterns can match when ports_to_try is called
Globs == [1..MaxPatterns -> SUBSET Ports]

\* the test that skips a port in a round of detect_devices: it looks at the
\* devices of the earlier rounds, not at round_devices
AlreadyDetected(port, detected, round_devices) == port \in Range(detected)

\* one round of detect_devices over possible_ports; found are the ports on
\* which _identify_device finds a bootloader
RECURSIVE DetectRound(_, _, _, _)
DetectRound(detected, round_devices, possible_ports, found) ==
    IF possible_ports = <<>> THEN detected \o round_devices
    ELSE LET port == Head(possible_ports)
         IN IF AlreadyDetected(port, detected, round_devices) \/ port \notin found
            THEN DetectRound(detected, round_devices, Tail(possible_ports), found)
            ELSE DetectRound(detected, Append(round_devices, port),
                             Tail(possible_ports), found)

\* detect_devices: the lists it can return after k rounds
max_detection_rounds == 3

RECURSIVE detect_devices(_)
detect_devices(k) ==
    IF k = 0 THEN {<<>>}
    ELSE {DetectRound(devices_so_far, <<>>, ports_to_try(globs), found) :
             devices_so_far \in detect_devices(k - 1), globs \in Globs,
             found \in SUBSET Ports}

\* check_firmware_versions: the detected devices a firmware file matches, in
\* the order of detection (with_firmware are the ports of those boards)
check_firmware_versions(detected, with_firmware) ==
    SelectSeq(detected, LAMBDA port : port \in with_firmware)

\* the lists update_devices can be given, up to MaxCubes devices
DeviceLists ==
    {ds \in {check_firmware_versions(detected, with_firmware) :
                detected \in detect_devices(max_detection_rounds),
                with_firmware \in SUBSET Ports} : Len(ds) <= MaxCubes}

Workers == DOMAIN devices

(***************************************************************************)
(* State of a transport right after DroneCANNode.__init__.                 *)
(***************************************************************************)
InitTransport ==
    /\ now = Epoch
    /\ ticks = 0
    /\ recs = <<>>
    /\ discovered_nodes = <<>>
    /\ processed_nodes = {}
    /\ callbacks = FALSE
    /\ immediate_done = FALSE
    /\ dronecan_devices = <<>>
    /\ new_peer_events = 0
    /\ removed_events = 0
    /\ node_log_last = ""
    /\ drv = <<>>

PhaseBUnchanged == UNCHANGED <<varsReg, drv, varsExt>>

(***************************************************************************)
(* Phase A: BatchFirmwareUpdater.run up to the call of update_devices.     *)
(***************************************************************************)
InitA ==
    /\ run_pc = "start"
    /\ skip_cube_update \in BOOLEAN
    /\ auto_yes \in BOOLEAN
    /\ exit_code = -1
    /\ monitoring_started = FALSE
    /\ devices = <<>>
    /\ cube_devices = <<>>
    /\ submitted = 0
    /\ wpc = <<>>
    /\ wres = <<>>
    /\ collected = {}
    /\ success_count = 0
    /\ update_result = "none"
    /\ handles = [p \in Ports |-> {}]
    /\ InitTransport
    /\ InitExt
    /\ monitor = Monitor(FALSE)

\* run: --skip-cube-update goes straight to Phase B
RunSkipPhaseA ==
    /\ run_pc = "start"
    /\ skip_cube_update
    /\ run_pc' = "phase_b"
    /\ UNCHANGED <<skip_cube_update, auto_yes, exit_code, monitoring_started,
                   devices, cube_devices, submitted, wpc, wres, collected, success_count, update_result>>
    /\ UNCHANGED handles
    /\ PhaseBUnchanged

\* run: the firmware directory is missing
RunNoFirmwareDir ==
    /\ run_pc = "start"
    /\ ~skip_cube_update
    /\ run_pc' = "returned"
    /\ exit_code' = 1
    /\ UNCHANGED <<skip_cube_update, auto_yes, monitoring_started,
                   devices, cube_devices, submitted, wpc, wres, collected, success_count, update_result>>
    /\ UNCHANGED handles
    /\ PhaseBUnchanged

\* run: detect_devices and check_firmware_versions; ds are the devices with a
\* matching firmware, each of which gets a queued row
RunDetect(ds) ==
    /\ run_pc = "start"
    /\ ~skip_cube_update
    /\ devices' = ds
    /\ cube_devices' = AddCubeRows(cube_devices, ds)
    /\ wpc' = [i \in DOMAIN ds |-> "idle"]
    /\ wres' = [i \in DOMAIN ds |-> "none"]
    /\ run_pc' = IF ds = <<>> THEN "phase_b" ELSE "confirm"
    /\ UNCHANGED <<skip_cube_update, auto_yes, exit_code, monitoring_started,
                   submitted, collected, success_count, update_result>>
    /\ UNCHANGED handles
    /\ PhaseBUnchanged

\* run: -y or the answer to the prompt
RunConfirm(answer) ==
    /\ run_pc = "confirm"
    /\ LET proceed == auto_yes \/ answer
       IN run_pc' = IF proceed THEN "submit" ELSE "phase_b"
    /\ UNCHANGED <<skip_cube_update, auto_yes, exit_code, monitoring_started,
                   devices, cube_devices, submitted, wpc, wres, collected, success_count, update_result>>
    /\ UNCHANGED handles
    /\ PhaseBUnchanged

(***************************************************************************)
(* CubeUpdater.update_devices: the executor and the as_completed loop.     *)
(***************************************************************************)
\* executor.submit of the next device
Submit ==
    /\ run_pc = "submit"
    /\ submitted < Len(devices)
    /\ submitted' = submitted + 1
    /\ wpc' = [wpc EXCEPT ![submitted + 1] = "submitted"]
    /\ UNCHANGED <<run_pc, skip_cube_update, auto_yes, exit_code, monitoring_started,
                   devices, cube_devices, wres, collected, success_count, update_result>>
    /\ UNCHANGED handles
    /\ PhaseBUnchanged

SubmitDone ==
    /\ run_pc = "submit"
    /\ submitted = Len(devices)
    /\ run_pc' = "collect"
    /\ UNCHANGED <<skip_cube_update, auto_yes, exit_code, monitoring_started,
                   devices, cube_devices, submitted, wpc, wres, collected, success_count, update_result>>
    /\ UNCHANGED handles
    /\ PhaseBUnchanged

\* as_completed yields a future once its worker has returned
Collect(i) ==
    /\ run_pc = "collect"
    /\ i \in Workers \ collected
    /\ wpc[i] = "done"
    /\ collected' = collected \cup {i}
    /\ success_count' = IF wres[i] = "true" THEN success_count + 1 ELSE success_count
    /\ UNCHANGED <<run_pc, skip_cube_update, auto_yes, exit_code, monitoring_started,
                   devices, cube_devices, submitted, wpc, wres, update_result>>
    /\ UNCHANGED handles
    /\ PhaseBUnchanged

\* the as_completed loop and the executor's with-block end when every future
\* has completed
AllCompleted_any == collected # {}

AllCompleted == collected = Workers

\* the value update_devices returns
UpdateDevicesResult(cnt, n) == cnt = n

\* run's decision on the value of update_devices
RunAfterUpdate_ignore(success) == "phase_b"

RunAfterUpdate(success) == IF success THEN "phase_b" ELSE "returned"

\* update_devices returns and run acts on its value
UpdateDevicesReturn ==
    /\ run_pc = "collect"
    /\ AllCompleted
    /\ LET success == UpdateDevicesResult(success_count, Len(devices))
       IN /\ update_result' = IF success THEN "true" ELSE "false"
          /\ run_pc' = RunAfterUpdate(success)
          /\ exit_code' = IF RunAfterUpdate(success) = "returned" THEN 1 ELSE exit_code
    /\ UNCHANGED <<skip_cube_update, auto_yes, monitoring_started,
                   devices, cube_devices, submitted, wpc, wres, collected, success_count>>
    /\ UNCHANGED handles
    /\ PhaseBUnchanged

\* run: Phase B, DroneCaNMonitor.start_monitoring
RunStartMonitoring ==
    /\ run_pc = "phase_b"
    /\ monitoring_started' = TRUE
    /\ run_pc' = "monitoring"
    /\ UNCHANGED <<skip_cube_update, auto_yes, exit_code,
                   devices, cube_devices, submitted, wpc, wres, collected, success_count, update_result>>
    /\ UNCHANGED handles
    /\ PhaseBUnchanged

\* start_monitoring returns (interrupted, or nothing to monitor)
RunMonitoringReturn ==
    /\ run_pc = "monitoring"
    /\ run_pc' = "returned"
    /\ exit_code' = 0
    /\ UNCHANGED <<skip_cube_update, auto_yes, monitoring_started,
                   devices, cube_devices, submitted, wpc, wres, collected, success_count, update_result>>
    /\ UNCHANGED handles
    /\ PhaseBUnchanged

(***************************************************************************)
(* CubeUpdater._update_single_device: one worker of the pool.              *)
(***************************************************************************)
WorkerUnchanged ==
    /\ UNCHANGED <<run_pc, skip_cube_update, auto_yes, exit_code, monitoring_started,
                   devices, submitted, collected, success_count, update_result>>
    /\ PhaseBUnchanged

\* the except clause of _update_single_device
WorkerFail_abort(i) ==
    /\ cube_devices' = update_cube_progress(cube_devices, devices[i], "failed", 0)
    /\ wpc' = [j \in DOMAIN wpc |-> "done"]
    /\ wres' = [j \in DOMAIN wres |-> "false"]

WorkerFail(i) ==
    /\ cube_devices' = update_cube_progress(cube_devices, devices[i], "failed", 0)
    /\ wpc' = [wpc EXCEPT ![i] = "done"]
    /\ wres' = [wres EXCEPT ![i] = "false"]

\* the worker starts: status connecting
WorkerStart(i) ==
    /\ i \in Workers
    /\ wpc[i] = "submitted"
    /\ cube_devices' = update_cube_progress(cube_devices, devices[i], "connecting", 0)
    /\ wpc' = [wpc EXCEPT ![i] = "connecting"]
    /\ UNCHANGED <<wres, handles>>
    /\ WorkerUnchanged

\* firmware(device.firmware_file) and the uploader are created; the uploader
\* opens the port in its constructor
WorkerLoad(i, ok) ==
    /\ i \in Workers
    /\ wpc[i] = "connecting"
    /\ IF ok THEN /\ wpc' = [wpc EXCEPT ![i] = "find_bootloader"]
                  /\ handles' = [handles EXCEPT ![devices[i]] = @ \cup {"worker"}]
                  /\ UNCHANGED <<cube_devices, wres>>
             ELSE /\ WorkerFail(i)
                  /\ UNCHANGED handles
    /\ WorkerUnchanged

\* _find_bootloader: found, not found (status failed, close, return False), or
\* up.close() raises after "not found" (the except clause runs as well)
WorkerFindBootloader(i, found) ==
    /\ i \in Workers
    /\ wpc[i] = "find_bootloader"
    /\ IF found THEN /\ wpc' = [wpc EXCEPT ![i] = "upload"]
                     /\ UNCHANGED <<cube_devices, wres, handles>>
                ELSE /\ WorkerFail(i)
                     /\ handles' = [handles EXCEPT ![devices[i]] = @ \ {"worker"}]
    /\ WorkerUnchanged

\* the upload subprocess started by _upload_with_progress creates its own
\* uploader on device.port
SubprocessOpen(i) ==
    /\ i \in Workers
    /\ wpc[i] = "upload"
    /\ "subprocess" \notin handles[devices[i]]
    /\ handles' = [handles EXCEPT ![devices[i]] = @ \cup {"subprocess"}]
    /\ UNCHANGED <<cube_devices, wpc, wres>>
    /\ WorkerUnchanged

\* _upload_with_progress reads a progress line of the upload subprocess
WorkerProgress(i, phase, pv) ==
    /\ i \in Workers
    /\ wpc[i] = "upload"
    /\ "subprocess" \in handles[devices[i]]
    /\ cube_devices' =
         CASE phase = "erasing" ->
                update_cube_progress(cube_devices, devices[i], "erasing",
                                     IF pv \div 5 < 20 THEN pv \div 5 ELSE 20)
           [] phase = "uploading" ->
                update_cube_progress(cube_devices, devices[i], "uploading",
                                     IF 20 + (7 * pv) \div 10 < 90
                                     THEN 20 + (7 * pv) \div 10 ELSE 90)
           [] OTHER ->
                update_cube_progress(cube_devices, devices[i], "verifying", 95)
    /\ UNCHANGED <<wpc, wres, handles>>
    /\ WorkerUnchanged

\* the subprocess ends: UPLOAD_SUCCESS (status complete) or an exception;
\* the except clause of _update_single_device does not close the uploader
WorkerUploadEnd(i, ok) ==
    /\ i \in Workers
    /\ wpc[i] = "upload"
    /\ ok => "subprocess" \in handles[devices[i]]
    /\ handles' = [handles EXCEPT ![devices[i]] = @ \ {"subprocess"}]
    /\ IF ok THEN /\ cube_devices' =
                       update_cube_progress(cube_devices, devices[i], "complete", 100)
                  /\ wpc' = [wpc EXCEPT ![i] = "close"]
                  /\ UNCHANGED wres
             ELSE WorkerFail(i)
    /\ WorkerUnchanged

\* up.close(), status complete, return True; or close raises
WorkerClose(i, ok) ==
    /\ i \in Workers
    /\ wpc[i] = "close"
    /\ IF ok THEN /\ cube_devices' =
                       update_cube_progress(cube_devices, devices[i], "complete", 100)
                  /\ wpc' = [wpc EXCEPT ![i] = "done"]
                  /\ wres' = [wres EXCEPT ![i] = "true"]
                  /\ handles' = [handles EXCEPT ![devices[i]] = @ \ {"worker"}]
             ELSE /\ WorkerFail(i)
                  /\ UNCHANGED handles
    /\ WorkerUnchanged

NextA ==
    \/ RunSkipPhaseA
    \/ RunNoFirmwareDir
    \/ \E ds \in DeviceLists : RunDetect(ds)
    \/ \E answer \in BOOLEAN : RunConfirm(answer)
    \/ Submit
    \/ SubmitDone
    \/ \E i \in Ports : Collect(i)
    \/ UpdateDevicesReturn
    \/ RunStartMonitoring
    \/ RunMonitoringReturn
    \/ \E i \in Ports : WorkerStart(i)
    \/ \E i \in Ports, ok \in BOOLEAN : WorkerLoad(i, ok)
    \/ \E i \in Ports, found \in BOOLEAN : WorkerFindBootloader(i, found)
    \/ \E i \in Ports : SubprocessOpen(i)
    \/ \E i \in Ports, phase \in {"erasing", "uploading", "verifying"}, pv \in Percents :
          WorkerProgress(i, phase, pv)
    \/ \E i \in Ports, ok \in BOOLEAN : WorkerUploadEnd(i, ok)
    \/ \E i \in Ports, ok \in BOOLEAN : WorkerClose(i, ok)

SpecA == InitA /\ [][NextA]_vars

(***************************************************************************)
(* Text produced and compared by the program, modelled as sequences of     *)
(* characters and tokens.                                                  *)
(***************************************************************************)
HexDigits == <<"0", "1", "2", "3", "4", "5", "6", "7", "8", "9",
               "a", "b", "c", "d", "e", "f">>

\* str(n) and format(n, "x") of a non-negative integer
RECURSIVE Digits(_, _)
Digits(n, base) ==
    IF n < base THEN <<HexDigits[n + 1]>>
    ELSE Digits(n \div base, base) \o <<HexDigits[(n % base) + 1]>>

\* _handle_node_info_response: "{major}.{minor}" plus ".{vcs_commit:x}" when
\* the commit is not 0
VersionString(sw) ==
    Digits(sw.major, 10) \o <<".">> \o Digits(sw.minor, 10)
       \o (IF sw.vcs_commit # 0 THEN <<".">> \o Digits(sw.vcs_commit, 16) ELSE <<>>)

\* software versions peers report in GetNodeInfo
SoftwareVersions ==
    {[major |-> 1, minor |-> 8, vcs_commit |-> 0],
     [major |-> 1, minor |-> 8, vcs_commit |-> 171]}

\* names peers report in GetNodeInfo, as <<vendor prefix, device>>
NodeInfoNames ==
    {<<"com.cubepilot", "here4">>, <<"com.cubepilot", "here3">>,
     <<"com.cubepilot", "hx">>, <<"org.ardupilot", "periph">>}

\* _extract_device_name / _parse_device_name: the com.cubepilot.<device> name,
\* <<>> (None) for any other name
extract_device_name(name) ==
    IF name[1] = "com.cubepilot" THEN name ELSE <<>>

\* the firmware tree: files of the directory firmware/<device_name>; a file name
\* is its prefix token, the characters between, and its suffix token
FirmwareDir(device_name) ==
    CASE device_name[2] = "here4" ->
            {<<"firmware_">> \o <<"1", ".", "8", ".", "a", "b">> \o <<".bin">>,
             <<"firmware", ".bin">>}
      [] device_name[2] = "here3" -> {<<"firmware", ".bin">>}
      [] OTHER -> {}

IsVersioned(file) == file[1] = "firmware_" /\ file[Len(file)] = ".bin"

\* _find_firmware_path: a firmware_*.bin file first, firmware.bin otherwise,
\* <<>> (None) when the directory holds neither
find_firmware_path(device_name) ==
    LET files == FirmwareDir(device_name)
        versioned == {f \in files : IsVersioned(f)}
    IN IF versioned # {} THEN CHOOSE f \in versioned : TRUE
       ELSE IF <<"firmware", ".bin">> \in files THEN <<"firmware", ".bin">>
       ELSE <<>>

(***************************************************************************)
(* RemoteDroneCANNode and the device keys of the progress rows.            *)
(***************************************************************************)
\* RemoteDroneCANNode.__str__: <interface name>-CAN<bus>-<node id>
str_remote_node(r) == <<PORT[Len(PORT)], BUS_NUMBER, r.node_id>>

\* _handle_node_info_response: the key of the row under the old node id
old_device_id_stale(r, old) == str_remote_node(r)

old_device_id(r, old) == <<PORT[Len(PORT)], BUS_NUMBER, old>>

\* the object _handle_node_info_response creates for a new peer
NewRemoteNode(n, device_name, sw, u) ==
    [node_id          |-> n,
     device_name      |-> device_name,
     software_version |-> VersionString(sw),
     unique_id        |-> u,
     firmware_path    |-> find_firmware_path(device_name),
     needs_update     |-> find_firmware_path(device_name) # <<>>,
     last_seen        |-> now,
     bootloader_state |-> "unset"]

\* the node-id change branch: the same object with a new node id
MovedRecord_rediscovered(r, n) ==
    [r EXCEPT !.node_id = n, !.last_seen = now,
              !.needs_update = (r.firmware_path # <<>>),
              !.bootloader_state = "unset"]

MovedRecord_keep_id(r, n) == [r EXCEPT !.last_seen = now]

MovedRecord(r, n) == [r EXCEPT !.node_id = n, !.last_seen = now]

\* ProgressUI.add_dronecan_device: an existing row is left as it is
add_dronecan_device(rows, id, st) ==
    IF id \in DOMAIN rows THEN rows
    ELSE [k \in (DOMAIN rows) \cup {id} |-> IF k = id THEN Row(st, 0) ELSE rows[k]]

\* ProgressUI.remove_dronecan_device
remove_dronecan_device(rows, id) ==
    [k \in (DOMAIN rows) \ {id} |-> rows[k]]

\* ProgressUI.update_dronecan_progress: only an existing row is changed
update_dronecan_progress(rows, id, st, pr) ==
    IF id \in DOMAIN rows THEN [rows EXCEPT ![id] = Row(st, pr)] ELSE rows

\* the state of a freshly started update thread for object i
NewDriver(i) ==
    [rec |-> i, pc |-> "start", result |-> "none", sent |-> <<>>,
     start_time |-> 0, current_version |-> <<>>,
     maintenance_reached |-> FALSE, maintenance_wait_start |-> 0,
     last_restart_time |-> 0,
     status_handler |-> FALSE, update_started |-> FALSE, update_complete |-> FALSE,
     last_progress |-> 0, last_kb_flashed |-> 0, request_due |-> 0, start_wait |-> 0,
     bl |-> "idle", bl_thread |-> "none", timeout_start |-> 0, param_due |-> 0]

(***************************************************************************)
(* DroneCANNode: the peer registry.                                        *)
(***************************************************************************)
\* keys whose record carries unique id u (the search loop of the handler)
FindByUniqueId_none(u) == {}

FindByUniqueId(u) ==
    {k \in DOMAIN discovered_nodes : recs[discovered_nodes[k]].unique_id = u}

\* discovered_nodes with key k bound to object i
Bind(nodes, k, i) ==
    [x \in (DOMAIN nodes) \cup {k} |-> IF x = k THEN i ELSE nodes[x]]

Unbind(nodes, ks) == [x \in (DOMAIN nodes) \ ks |-> nodes[x]]

\* _handle_node_info_response, unique id known under another node id
ReplyMove(old, n) ==
    LET i == discovered_nodes[old]
        moved == MovedRecord(recs[i], n)
    IN /\ recs' = [recs EXCEPT ![i] = moved]
       /\ discovered_nodes' = Bind(Unbind(discovered_nodes, {old}), n, i)
       /\ dronecan_devices' =
            add_dronecan_device(
               remove_dronecan_device(dronecan_devices, old_device_id(moved, old)),
               str_remote_node(moved),
               IF moved.needs_update THEN "queued" ELSE "complete")
       /\ node_log_last' = IF moved.needs_update THEN "requires update"
                                                 ELSE "is up to date"
       /\ UNCHANGED <<processed_nodes, new_peer_events, drv>>

\* _handle_node_info_response, "just update timestamp" of the record under k
ReplyRefresh(k) ==
    /\ recs' = [recs EXCEPT ![discovered_nodes[k]].last_seen = now]
    /\ UNCHANGED <<discovered_nodes, dronecan_devices, processed_nodes,
                   new_peer_events, drv, node_log_last>>

\* _handle_node_info_response, new peer; new_node_callback is
\* DroneCaNMonitor._on_new_node_detected, which starts the update thread
ReplyCreate(n, device_name, sw, u) ==
    LET r == NewRemoteNode(n, device_name, sw, u)
        i == Len(recs) + 1
    IN /\ Len(recs) < MaxRecs
       /\ recs' = Append(recs, r)
       /\ discovered_nodes' = Bind(discovered_nodes, n, i)
       /\ dronecan_devices' =
            add_dronecan_device(dronecan_devices, str_remote_node(r),
                                IF r.needs_update THEN "queued" ELSE "complete")
       /\ processed_nodes' = IF callbacks THEN processed_nodes \cup {n}
                             ELSE processed_nodes
       /\ IF callbacks /\ r.needs_update
          THEN /\ new_peer_events' = new_peer_events + 1
               /\ drv' = IF r.firmware_path # <<>> THEN Append(drv, NewDriver(i)) ELSE drv
               /\ node_log_last' = "detected and identified"
          ELSE /\ UNCHANGED <<new_peer_events, drv>>
               /\ node_log_last' = IF callbacks THEN "does not need update"
                                    ELSE IF r.needs_update THEN "found firmware"
                                    ELSE "no firmware available"

\* _handle_node_info_response for a reply from node id n
HandleNodeInfoResponse(n, u, name, sw) ==
    LET device_name == extract_device_name(name)
        known == FindByUniqueId(u)
    IN IF device_name = <<>>
       THEN /\ node_log_last' = "is not a com.cubepilot device"
            /\ UNCHANGED <<recs, discovered_nodes, dronecan_devices, processed_nodes,
                           new_peer_events, drv>>
       ELSE IF known # {}
       THEN \E old \in known :
               IF old # n THEN ReplyMove(old, n) ELSE ReplyRefresh(n)
       ELSE IF n \notin DOMAIN discovered_nodes
       THEN IF n \in processed_nodes
            THEN UNCHANGED <<recs, discovered_nodes, dronecan_devices, processed_nodes,
                             new_peer_events, drv, node_log_last>>
            ELSE ReplyCreate(n, device_name, sw, u)
       ELSE ReplyRefresh(n)

\* a GetNodeInfo reply is delivered
NodeInfoReply(n, u, name, sw) ==
    /\ HandleNodeInfoResponse(n, u, name, sw)
    /\ UNCHANGED <<now, ticks, callbacks, immediate_done, removed_events>>
    /\ UNCHANGED <<varsA, varsExt>>

\* _cleanup_stale_nodes: the staleness test
IsStale_inclusive(r) == now - r.last_seen >= STALE_THRESHOLD

IsStale(r) == now - r.last_seen > STALE_THRESHOLD

StaleKeys == {k \in DOMAIN discovered_nodes : IsStale(recs[discovered_nodes[k]])}

\* rows left after the rows of the stale peers are removed
RemoveRows_keep(rows, ids) == rows

RECURSIVE RemoveRows(_, _)
RemoveRows(rows, ids) ==
    IF ids = {} THEN rows
    ELSE LET id == CHOOSE x \in ids : TRUE
         IN RemoveRows(remove_dronecan_device(rows, id), ids \ {id})

\* one pass of scan_loop, the thread start_monitoring starts (its sleep only
\* spaces the passes)
CleanupStaleNodes ==
    /\ callbacks
    /\ dronecan_devices' =
          RemoveRows(dronecan_devices,
                     {str_remote_node(recs[discovered_nodes[k]]) : k \in StaleKeys})
    /\ removed_events' = removed_events + Cardinality(StaleKeys)
    /\ discovered_nodes' = Unbind(discovered_nodes, StaleKeys)
    /\ node_log_last' = IF StaleKeys # {} THEN "removed from allocation due to timeout"
                         ELSE node_log_last
    /\ UNCHANGED <<now, ticks, recs, processed_nodes, callbacks, immediate_done,
                   new_peer_events, drv>>
    /\ UNCHANGED <<varsA, varsExt>>

\* DroneCANNode.start_monitoring on a transport retained by the discovery
InstallCallbacks ==
    /\ ~callbacks
    /\ DOMAIN discovered_nodes # {}
    /\ callbacks' = TRUE
    /\ UNCHANGED <<now, ticks, recs, discovered_nodes, processed_nodes, immediate_done,
                   dronecan_devices, new_peer_events, removed_events, node_log_last, drv>>
    /\ UNCHANGED <<varsA, varsExt>>

\* update threads for the keys ks, started in key order
RECURSIVE StartThreads(_, _)
StartThreads(threads, ks) ==
    IF ks = {} THEN threads
    ELSE LET k == CHOOSE x \in ks : \A y \in ks : x <= y
         IN StartThreads(Append(threads, NewDriver(discovered_nodes[k])), ks \ {k})

\* DroneCaNMonitor._start_immediate_updates
StartImmediateUpdates ==
    /\ callbacks
    /\ ~immediate_done
    /\ immediate_done' = TRUE
    /\ drv' = StartThreads(drv, {k \in DOMAIN discovered_nodes :
                                    recs[discovered_nodes[k]].needs_update})
    /\ UNCHANGED <<now, ticks, recs, discovered_nodes, processed_nodes, callbacks,
                   dronecan_devices, new_peer_events, removed_events, node_log_last>>
    /\ UNCHANGED <<varsA, varsExt>>

\* time passes: by one second or by a whole deadline
RegDeltas == {1, STALE_THRESHOLD}

Tick(dt) ==
    /\ ticks < MaxTicks
    /\ ticks' = ticks + 1
    /\ now' = now + dt
    /\ UNCHANGED <<recs, discovered_nodes, processed_nodes, callbacks, immediate_done,
                   dronecan_devices, new_peer_events, removed_events, node_log_last, drv>>
    /\ UNCHANGED <<varsA, varsExt>>

\* replies of the registry specification: a device with firmware, one without,
\* and a device of another vendor
RegNames == {<<"com.cubepilot", "here4">>, <<"com.cubepilot", "hx">>,
             <<"org.ardupilot", "periph">>}

RegVersions == {[major |-> 1, minor |-> 8, vcs_commit |-> 171]}

\* the orchestrator once Phase B runs (Phase A skipped), around one transport
InitPhaseB ==
    /\ run_pc = "monitoring"
    /\ skip_cube_update = TRUE
    /\ auto_yes = FALSE
    /\ exit_code = -1
    /\ monitoring_started = TRUE
    /\ devices = <<>>
    /\ cube_devices = <<>>
    /\ submitted = 0
    /\ wpc = <<>>
    /\ wres = <<>>
    /\ collected = {}
    /\ success_count = 0
    /\ update_result = "none"
    /\ handles = [p \in Ports |-> {}]
    /\ InitTransport
    /\ InitExt
    /\ monitor = Monitor(TRUE)

InitReg == InitPhaseB

NextReg ==
    \/ \E n \in NodeIds, u \in UIDs, name \in RegNames, sw \in RegVersions :
          NodeInfoReply(n, u, name, sw)
    \/ CleanupStaleNodes
    \/ InstallCallbacks
    \/ StartImmediateUpdates
    \/ \E dt \in RegDeltas : Tick(dt)

SpecReg == InitReg /\ [][NextReg]_vars

(***************************************************************************)
(* DroneCaNMonitor: the update thread of one peer and the handlers it      *)
(* registers on the transport.  A handler runs on whichever thread spins   *)
(* the node: the update thread itself or another one (DroneCANNode's       *)
(* _spin_loop, or the update thread of another peer).                      *)
(***************************************************************************)
Modes == {"OPERATIONAL", "MAINTENANCE", "SOFTWARE_UPDATE"}

\* vendor_specific_status_code values (kilobytes flashed) of the status frames
KbFlashed == {1, FirmwareKB + 1}

LogTexts == {"Bootloader unchanged", "Bootloader Flash ok", "other"}

\* _perform_dronecan_update: firmware_filename[9:-4] of a firmware_*.bin file,
\* <<>> (None) for any other file name
target_version(path) ==
    IF IsVersioned(path) THEN SubSeq(path, 2, Len(path) - 1) ELSE <<>>

\* the row of the peer, keyed by str(remote_node) at the time of the call
Report(rows, r, st, pr) == update_dronecan_progress(rows, str_remote_node(r), st, pr)

\* the node id the handlers of an update thread compare a frame's source with
HandlerSource(d) == recs[d.rec].node_id

\* the update thread is in one of its own spin loops, not inside a handler
DriverSpinning(d) == d.pc = "wait" /\ ~(d.bl = "wait" /\ d.bl_thread = "driver")

\* threads that can dispatch a frame to the handlers of update thread d
SpinningThreads(d) == {"other"} \cup (IF DriverSpinning(d) THEN {"driver"} ELSE {})

\* what is left unchanged by a step of an update thread or of its handlers
DrvFrame ==
    /\ UNCHANGED <<now, ticks, discovered_nodes, processed_nodes, callbacks,
                   immediate_done, new_peer_events, removed_events, node_log_last>>
    /\ UNCHANGED <<varsA, varsExt>>

\* _update_node_firmware up to the first wait for operational mode
DrvStart(i) ==
    /\ i \in DOMAIN drv
    /\ drv[i].pc = "start"
    /\ dronecan_devices' = Report(dronecan_devices, recs[drv[i].rec], "connecting", 5)
    /\ drv' = [drv EXCEPT ![i] = [@ EXCEPT !.pc = "op1", !.start_time = now,
                                          !.current_version = <<>>]]
    /\ UNCHANGED recs
    /\ DrvFrame

\* _wait_for_operational_and_get_version: the wait loop is over
OperationalWaitOver(d) ==
    d.current_version # <<>> \/ ~(now - d.start_time < OPERATIONAL_TIMEOUT)

\* _perform_dronecan_update from reading the file to the maintenance loop
\* (a local of a function that has returned, or that is not read any more, is
\* set back to its initial value)
Prepare(d) ==
    [d EXCEPT !.pc = "maint", !.start_time = 0, !.maintenance_reached = FALSE,
              !.maintenance_wait_start = now, !.last_restart_time = 0]

\* _start_bootloader_update up to its wait loop, on thread th
StartBootloader(d, th) ==
    [d EXCEPT !.bl = "wait", !.bl_thread = th, !.timeout_start = now, !.start_time = 0,
              !.sent = Append(@, "FLASH_BOOTLOADER"),
              !.param_due = now + BOOTLOADER_INTERVAL]

\* the first wait returns; _perform_dronecan_update reads the target version
\* off the file name and either waits again or prepares the update
DrvOperationalWaitEnd(i) ==
    /\ i \in DOMAIN drv
    /\ drv[i].pc = "op1"
    /\ OperationalWaitOver(drv[i])
    /\ LET d == drv[i]
           r == recs[d.rec]
       IN IF target_version(r.firmware_path) # <<>>
          THEN /\ drv' = [drv EXCEPT ![i] = [d EXCEPT !.pc = "op2", !.start_time = now,
                                                      !.current_version = <<>>]]
               /\ UNCHANGED dronecan_devices
          ELSE /\ drv' = [drv EXCEPT ![i] = Prepare(d)]
               /\ dronecan_devices' = Report(dronecan_devices, r, "preparing", 15)
    /\ UNCHANGED recs
    /\ DrvFrame

\* the version comparison
SameVersion(current, target) == current = target

\* the skip branch: straight into _start_bootloader_update on the update thread
SkipFirmwareStage_update(d) == Prepare(d)

SkipFirmwareStage(d) == StartBootloader([d EXCEPT !.pc = "bl"], "driver")

\* the second wait returns: skip the firmware stage when the peer already runs
\* the target version, prepare the update otherwise
DrvVersionCheck(i) ==
    /\ i \in DOMAIN drv
    /\ drv[i].pc = "op2"
    /\ OperationalWaitOver(drv[i])
    /\ LET d == drv[i]
           r == recs[d.rec]
       IN IF SameVersion(d.current_version, target_version(r.firmware_path))
          THEN /\ recs' = [recs EXCEPT ![d.rec] =
                             [r EXCEPT !.needs_update = FALSE,
                                       !.bootloader_state = "pending"]]
               /\ dronecan_devices' = Report(dronecan_devices, r, "bootloader", 90)
               /\ drv' = [drv EXCEPT ![i] = SkipFirmwareStage(d)]
          ELSE /\ drv' = [drv EXCEPT ![i] = Prepare(d)]
               /\ dronecan_devices' = Report(dronecan_devices, r, "preparing", 15)
               /\ UNCHANGED recs
    /\ DrvFrame

\* one pass of the maintenance loop that sends a RestartNode request
DrvMaintRestart(i) ==
    /\ i \in DOMAIN drv
    /\ drv[i].pc = "maint"
    /\ ~drv[i].maintenance_reached
    /\ now - drv[i].maintenance_wait_start < MAINTENANCE_TIMEOUT
    /\ now - drv[i].last_restart_time >= RESTART_INTERVAL
    /\ drv' = [drv EXCEPT ![i] = [@ EXCEPT !.last_restart_time = now,
                                          !.sent = Append(@, "RestartNode")]]
    /\ UNCHANGED <<recs, dronecan_devices>>
    /\ DrvFrame

\* the maintenance loop is over, by the mode or by its deadline: the update
\* handler is registered and the first BeginFirmwareUpdate request is sent
DrvMaintEnd_fail(i) ==
    /\ i \in DOMAIN drv
    /\ drv[i].pc = "maint"
    /\ drv[i].maintenance_reached
          \/ ~(now - drv[i].maintenance_wait_start < MAINTENANCE_TIMEOUT)
    /\ dronecan_devices' =
          Report(dronecan_devices, recs[drv[i].rec],
                 IF drv[i].maintenance_reached THEN "uploading" ELSE "failed",
                 IF drv[i].maintenance_reached THEN 20 ELSE 0)
    /\ drv' = [drv EXCEPT ![i] =
                 IF drv[i].maintenance_reached
                 THEN [@ EXCEPT !.pc = "wait", !.status_handler = TRUE,
                                !.maintenance_wait_start = 0, !.last_restart_time = 0,
                                !.sent = Append(@, "BeginFirmwareUpdate"),
                                !.request_due = now + REQUEST_INTERVAL,
                                !.start_wait = now]
                 ELSE [@ EXCEPT !.pc = "done", !.result = "failed",
                                !.maintenance_wait_start = 0, !.last_restart_time = 0]]
    /\ UNCHANGED recs
    /\ DrvFrame

DrvMaintEnd(i) ==
    /\ i \in DOMAIN drv
    /\ drv[i].pc = "maint"
    /\ drv[i].maintenance_reached
          \/ ~(now - drv[i].maintenance_wait_start < MAINTENANCE_TIMEOUT)
    /\ dronecan_devices' = Report(dronecan_devices, recs[drv[i].rec], "uploading", 20)
    /\ drv' = [drv EXCEPT ![i] =
                 [@ EXCEPT !.pc = "wait", !.status_handler = TRUE,
                           !.maintenance_wait_start = 0, !.last_restart_time = 0,
                           !.update_started = FALSE, !.update_complete = FALSE,
                           !.last_progress = 0, !.last_kb_flashed = 0,
                           !.sent = Append(@, "BeginFirmwareUpdate"),
                           !.request_due = now + REQUEST_INTERVAL,
                           !.start_wait = now]]
    /\ UNCHANGED recs
    /\ DrvFrame

\* schedule_periodic_requests of _perform_dronecan_update (node.defer)
DrvPeriodicRequest_always(i) ==
    /\ i \in DOMAIN drv
    /\ drv[i].status_handler
    /\ now >= drv[i].request_due
    /\ drv' = [drv EXCEPT ![i] = [@ EXCEPT !.sent = Append(@, "BeginFirmwareUpdate"),
                                          !.request_due = now + REQUEST_INTERVAL]]
    /\ UNCHANGED <<recs, dronecan_devices>>
    /\ DrvFrame

DrvPeriodicRequest(i) ==
    /\ i \in DOMAIN drv
    /\ drv[i].status_handler
    /\ ~drv[i].update_started
    /\ now >= drv[i].request_due
    /\ drv' = [drv EXCEPT ![i] = [@ EXCEPT !.sent = Append(@, "BeginFirmwareUpdate"),
                                          !.request_due = now + REQUEST_INTERVAL]]
    /\ UNCHANGED <<recs, dronecan_devices>>
    /\ DrvFrame

\* the final wait loop: the deadline test
UpdateTimedOut_early(d) == now - d.start_wait >= 0

UpdateTimedOut_inclusive(d) == now - d.start_wait >= UPDATE_TIMEOUT

UpdateTimedOut(d) == now - d.start_wait > UPDATE_TIMEOUT

\* the final wait loop gives up: _update_node_firmware reports failed
DrvWaitTimeout(i) ==
    /\ i \in DOMAIN drv
    /\ DriverSpinning(drv[i])
    /\ ~drv[i].update_started \/ ~drv[i].update_complete
    /\ UpdateTimedOut(drv[i])
    /\ dronecan_devices' = Report(dronecan_devices, recs[drv[i].rec], "failed", 0)
    /\ drv' = [drv EXCEPT ![i] = [@ EXCEPT !.pc = "done", !.result = "failed",
                                          !.start_wait = 0]]
    /\ UNCHANGED recs
    /\ DrvFrame

\* the condition that ends the final wait loop with success
WaitLoopDone(d) == d.update_started /\ d.update_complete

\* the final wait loop ends: _update_node_firmware reports complete
DrvWaitDone(i) ==
    /\ i \in DOMAIN drv
    /\ DriverSpinning(drv[i])
    /\ WaitLoopDone(drv[i])
    /\ dronecan_devices' = Report(dronecan_devices, recs[drv[i].rec], "complete", 100)
    /\ drv' = [drv EXCEPT ![i] = [@ EXCEPT !.pc = "done", !.result = "complete",
                                          !.start_wait = 0]]
    /\ UNCHANGED recs
    /\ DrvFrame

\* flashing progress in whole percent: 50 + min(kb / size, 1) * 39
ProgressPercent_unclamped(kb) == 50 + (kb * 39) \div FirmwareKB

ProgressPercent(kb) ==
    50 + ((IF kb < FirmwareKB THEN kb ELSE FirmwareKB) * 39) \div FirmwareKB

\* on_node_status of _wait_for_operational_and_get_version
OnOperationalStatus(i, mode) ==
    /\ drv' = IF mode = "OPERATIONAL"
              THEN [drv EXCEPT ![i] = [@ EXCEPT !.current_version =
                                          recs[drv[i].rec].software_version]]
              ELSE drv
    /\ UNCHANGED <<recs, dronecan_devices>>

\* on_maintenance_status
OnMaintenanceStatus(i, mode) ==
    /\ drv' = IF mode = "MAINTENANCE"
              THEN [drv EXCEPT ![i] = [@ EXCEPT !.maintenance_reached = TRUE]]
              ELSE drv
    /\ UNCHANGED <<recs, dronecan_devices>>

\* on_node_status of _perform_dronecan_update, run on thread th; in operational
\* mode after the update it goes on into _start_bootloader_update
OnUpdateStatus(i, mode, kb, th) ==
    LET d == drv[i]
        r == recs[d.rec]
    IN CASE mode = "SOFTWARE_UPDATE" /\ ~d.update_started ->
              /\ drv' = [drv EXCEPT ![i] = [d EXCEPT !.update_started = TRUE,
                                                    !.last_progress = 50,
                                                    !.request_due = 0]]
              /\ dronecan_devices' = Report(dronecan_devices, r, "updating", 50)
              /\ UNCHANGED recs
         [] mode = "SOFTWARE_UPDATE" /\ d.update_started
                /\ kb >= d.last_kb_flashed /\ ProgressPercent(kb) > d.last_progress ->
              /\ drv' = [drv EXCEPT ![i] = [d EXCEPT !.last_progress = ProgressPercent(kb),
                                                    !.last_kb_flashed = kb]]
              /\ dronecan_devices' =
                    Report(dronecan_devices, r, "updating", ProgressPercent(kb))
              /\ UNCHANGED recs
         [] mode = "OPERATIONAL" /\ d.update_started /\ ~d.update_complete ->
              /\ drv' = [drv EXCEPT ![i] =
                           StartBootloader([d EXCEPT !.update_complete = TRUE,
                                                     !.last_progress = 90], th)]
              /\ dronecan_devices' = Report(dronecan_devices, r, "bootloader", 90)
              /\ recs' = [recs EXCEPT ![d.rec] =
                            [r EXCEPT !.needs_update = FALSE,
                                      !.bootloader_state = "pending"]]
         [] mode \notin {"SOFTWARE_UPDATE", "OPERATIONAL"}
                /\ d.update_started /\ ~d.update_complete /\ d.last_progress < 90 ->
              /\ drv' = [drv EXCEPT ![i] = [d EXCEPT !.last_progress = 90]]
              /\ dronecan_devices' = Report(dronecan_devices, r, "verifying", 90)
              /\ UNCHANGED recs
         [] OTHER -> UNCHANGED <<drv, recs, dronecan_devices>>

\* a NodeStatus frame from node id src reaches the handlers of update thread i,
\* dispatched by thread th
NodeStatus(i, src, mode, kb, th) ==
    /\ i \in DOMAIN drv
    /\ th \in SpinningThreads(drv[i])
    /\ IF src # HandlerSource(drv[i])
       THEN UNCHANGED <<drv, recs, dronecan_devices>>
       ELSE IF drv[i].pc \in {"op1", "op2"} THEN OnOperationalStatus(i, mode)
       ELSE IF drv[i].pc = "maint" THEN OnMaintenanceStatus(i, mode)
       ELSE IF drv[i].status_handler THEN OnUpdateStatus(i, mode, kb, th)
       ELSE UNCHANGED <<drv, recs, dronecan_devices>>
    /\ DrvFrame

\* on_log_message, registered while _start_bootloader_update waits
LogMessage(i, src, text) ==
    /\ i \in DOMAIN drv
    /\ recs' = IF drv[i].bl = "wait" /\ src = HandlerSource(drv[i])
                  /\ text \in {"Bootloader unchanged", "Bootloader Flash ok"}
               THEN [recs EXCEPT ![drv[i].rec].bootloader_state =
                        IF text = "Bootloader unchanged" THEN "unchanged" ELSE "updated"]
               ELSE recs
    /\ UNCHANGED <<drv, dronecan_devices>>
    /\ DrvFrame

\* schedule_periodic_requests of _start_bootloader_update (node.defer)
BootloaderPeriodicRequest(i) ==
    /\ i \in DOMAIN drv
    /\ drv[i].bl = "wait"
    /\ recs[drv[i].rec].bootloader_state = "pending"
    /\ now >= drv[i].param_due
    /\ drv' = [drv EXCEPT ![i] = [@ EXCEPT !.sent = Append(@, "FLASH_BOOTLOADER"),
                                          !.param_due = now + BOOTLOADER_INTERVAL]]
    /\ UNCHANGED <<recs, dronecan_devices>>
    /\ DrvFrame

\* the wait loop of _start_bootloader_update is over, by a log line or by its
\* deadline; its caller sends the final RestartNode and sets the row complete,
\* and on the skip path _update_node_firmware reports complete
BootloaderWaitEnd_pending(i) ==
    /\ i \in DOMAIN drv
    /\ drv[i].bl = "wait"
    /\ LET d == drv[i]
           r == recs[d.rec]
       IN /\ r.bootloader_state # "pending"
                \/ ~(now - d.timeout_start < BOOTLOADER_TIMEOUT)
          /\ UNCHANGED recs
          /\ dronecan_devices' = Report(dronecan_devices, r, "complete", 100)
          /\ drv' = [drv EXCEPT ![i] =
                       [d EXCEPT !.bl = "done", !.timeout_start = 0, !.param_due = 0,
                                 !.sent = Append(@, "RestartNode"),
                                 !.pc = IF d.pc = "bl" THEN "done" ELSE d.pc,
                                 !.result = IF d.pc = "bl" THEN "complete" ELSE d.result]]
    /\ DrvFrame

BootloaderWaitEnd(i) ==
    /\ i \in DOMAIN drv
    /\ drv[i].bl = "wait"
    /\ LET d == drv[i]
           r == recs[d.rec]
       IN /\ r.bootloader_state # "pending"
                \/ ~(now - d.timeout_start < BOOTLOADER_TIMEOUT)
          /\ recs' = [recs EXCEPT ![d.rec].bootloader_state =
                        IF @ = "pending" THEN "timeout" ELSE @]
          /\ dronecan_devices' = Report(dronecan_devices, r, "complete", 100)
          /\ drv' = [drv EXCEPT ![i] =
                       [d EXCEPT !.bl = "done", !.timeout_start = 0, !.param_due = 0,
                                 !.sent = Append(@, "RestartNode"),
                                 !.pc = IF d.pc = "bl" THEN "done" ELSE d.pc,
                                 !.result = IF d.pc = "bl" THEN "complete" ELSE d.result]]
    /\ DrvFrame

\* the update specification follows one peer with a versioned firmware file
DrvUIDs == {1}

DrvRecs == 1

DrvNames == {<<"com.cubepilot", "here4">>}

\* time passes by the length of one of the deadlines
DrvDeltas == {MAINTENANCE_TIMEOUT, UPDATE_TIMEOUT}

InitDrv == InitPhaseB

NextDrv ==
    \/ \E n \in NodeIds, u \in DrvUIDs, name \in DrvNames, sw \in SoftwareVersions :
          /\ Len(recs) < DrvRecs \/ FindByUniqueId(u) # {}
          /\ NodeInfoReply(n, u, name, sw)
    \/ CleanupStaleNodes
    \/ InstallCallbacks
    \/ StartImmediateUpdates
    \/ \E dt \in DrvDeltas : Tick(dt)
    \/ \E i \in DOMAIN drv : DrvStart(i)
    \/ \E i \in DOMAIN drv : DrvOperationalWaitEnd(i)
    \/ \E i \in DOMAIN drv : DrvVersionCheck(i)
    \/ \E i \in DOMAIN drv : DrvMaintRestart(i)
    \/ \E i \in DOMAIN drv : DrvMaintEnd(i)
    \/ \E i \in DOMAIN drv : DrvPeriodicRequest(i)
    \/ \E i \in DOMAIN drv : DrvWaitTimeout(i)
    \/ \E i \in DOMAIN drv : DrvWaitDone(i)
    \/ \E i \in DOMAIN drv : BootloaderPeriodicRequest(i)
    \/ \E i \in DOMAIN drv : BootloaderWaitEnd(i)
    \/ \E i \in DOMAIN drv, src \in NodeIds, mode \in Modes :
          \E kb \in (IF mode = "SOFTWARE_UPDATE" THEN KbFlashed ELSE {0}),
             th \in SpinningThreads(drv[i]) : NodeStatus(i, src, mode, kb, th)
    \/ \E i \in DOMAIN drv, src \in NodeIds, text \in LogTexts : LogMessage(i, src, text)

SpecDrv == InitDrv /\ [][NextDrv]_vars

\* an update thread that can leave its maintenance loop does so (the loop
\* tests its condition again after every node.spin(0.1)), and so do the final
\* wait and the wait of the bootloader stage; a deferred call that is due is run
\* (DroneCANNode._spin_loop spins the node all the time)
SpecDrvLive ==
    /\ SpecDrv
    /\ WF_vars(\E i \in DOMAIN drv : DrvMaintEnd(i))
    /\ WF_vars(\E i \in DOMAIN drv : DrvPeriodicRequest(i))
    /\ WF_vars(\E i \in DOMAIN drv : DrvWaitTimeout(i))
    /\ WF_vars(\E i \in DOMAIN drv : BootloaderWaitEnd(i))

(***************************************************************************)
(* The firmware bundle (uploader.py, class firmware) and the CRC of the    *)
(* bootloader.  A byte string is a sequence of numbers 0..255; a 32-bit    *)
(* word is the tuple of its four bytes, most significant first.            *)
(***************************************************************************)
\* longest decompressed image of a bundle, in bytes
MaxImage == 4
\* longest decompressed external-flash image of a bundle, in bytes
MaxExtf == 2
\* the padding loop is followed up to this image length
MaxLoaded == 1024
\* crc(padlen) is called with padlen up to this many words past the image
MaxPadWords == 2

\* crctab, each entry by its four bytes
crctab == <<
    <<0, 0, 0, 0>>, <<119, 7, 48, 150>>, <<238, 14, 97, 44>>, <<153, 9, 81, 186>>,
    <<7, 109, 196, 25>>, <<112, 106, 244, 143>>, <<233, 99, 165, 53>>, <<158, 100, 149, 163>>,
    <<14, 219, 136, 50>>, <<121, 220, 184, 164>>, <<224, 213, 233, 30>>, <<151, 210, 217, 136>>,
    <<9, 182, 76, 43>>, <<126, 177, 124, 189>>, <<231, 184, 45, 7>>, <<144, 191, 29, 145>>,
    <<29, 183, 16, 100>>, <<106, 176, 32, 242>>, <<243, 185, 113, 72>>, <<132, 190, 65, 222>>,
    <<26, 218, 212, 125>>, <<109, 221, 228, 235>>, <<244, 212, 181, 81>>, <<131, 211, 133, 199>>,
    <<19, 108, 152, 86>>, <<100, 107, 168, 192>>, <<253, 98, 249, 122>>, <<138, 101, 201, 236>>,
    <<20, 1, 92, 79>>, <<99, 6, 108, 217>>, <<250, 15, 61, 99>>, <<141, 8, 13, 245>>,
    <<59, 110, 32, 200>>, <<76, 105, 16, 94>>, <<213, 96, 65, 228>>, <<162, 103, 113, 114>>,
    <<60, 3, 228, 209>>, <<75, 4, 212, 71>>, <<210, 13, 133, 253>>, <<165, 10, 181, 107>>,
    <<53, 181, 168, 250>>, <<66, 178, 152, 108>>, <<219, 187, 201, 214>>, <<172, 188, 249, 64>>,
    <<50, 216, 108, 227>>, <<69, 223, 92, 117>>, <<220, 214, 13, 207>>, <<171, 209, 61, 89>>,
    <<38, 217, 48, 172>>, <<81, 222, 0, 58>>, <<200, 215, 81, 128>>, <<191, 208, 97, 22>>,
    <<33, 180, 244, 181>>, <<86, 179, 196, 35>>, <<207, 186, 149, 153>>, <<184, 189, 165, 15>>,
    <<40, 2, 184, 158>>, <<95, 5, 136, 8>>, <<198, 12, 217, 178>>, <<177, 11, 233, 36>>,
    <<47, 111, 124, 135>>, <<88, 104, 76, 17>>, <<193, 97, 29, 171>>, <<182, 102, 45, 61>>,
    <<118, 220, 65, 144>>, <<1, 219, 113, 6>>, <<152, 210, 32, 188>>, <<239, 213, 16, 42>>,
    <<113, 177, 133, 137>>, <<6, 182, 181, 31>>, <<159, 191, 228, 165>>, <<232, 184, 212, 51>>,
    <<120, 7, 201, 162>>, <<15, 0, 249, 52>>, <<150, 9, 168, 142>>, <<225, 14, 152, 24>>,
    <<127, 106, 13, 187>>, <<8, 109, 61, 45>>, <<145, 100, 108, 151>>, <<230, 99, 92, 1>>,
    <<107, 107, 81, 244>>, <<28, 108, 97, 98>>, <<133, 101, 48, 216>>, <<242, 98, 0, 78>>,
    <<108, 6, 149, 237>>, <<27, 1, 165, 123>>, <<130, 8, 244, 193>>, <<245, 15, 196, 87>>,
    <<101, 176, 217, 198>>, <<18, 183, 233, 80>>, <<139, 190, 184, 234>>, <<252, 185, 136, 124>>,
    <<98, 221, 29, 223>>, <<21, 218, 45, 73>>, <<140, 211, 124, 243>>, <<251, 212, 76, 101>>,
    <<77, 178, 97, 88>>, <<58, 181, 81, 206>>, <<163, 188, 0, 116>>, <<212, 187, 48, 226>>,
    <<74, 223, 165, 65>>, <<61, 216, 149, 215>>, <<164, 209, 196, 109>>, <<211, 214, 244, 251>>,
    <<67, 105, 233, 106>>, <<52, 110, 217, 252>>, <<173, 103, 136, 70>>, <<218, 96, 184, 208>>,
    <<68, 4, 45, 115>>, <<51, 3, 29, 229>>, <<170, 10, 76, 95>>, <<221, 13, 124, 201>>,
    <<80, 5, 113, 60>>, <<39, 2, 65, 170>>, <<190, 11, 16, 16>>, <<201, 12, 32, 134>>,
    <<87, 104, 181, 37>>, <<32, 111, 133, 179>>, <<185, 102, 212, 9>>, <<206, 97, 228, 159>>,
    <<94, 222, 249, 14>>, <<41, 217, 201, 152>>, <<176, 208, 152, 34>>, <<199, 215, 168, 180>>,
    <<89, 179, 61, 23>>, <<46, 180, 13, 129>>, <<183, 189, 92, 59>>, <<192, 186, 108, 173>>,
    <<237, 184, 131, 32>>, <<154, 191, 179, 182>>, <<3, 182, 226, 12>>, <<116, 177, 210, 154>>,
    <<234, 213, 71, 57>>, <<157, 210, 119, 175>>, <<4, 219, 38, 21>>, <<115, 220, 22, 131>>,
    <<227, 99, 11, 18>>, <<148, 100, 59, 132>>, <<13, 109, 106, 62>>, <<122, 106, 90, 168>>,
    <<228, 14, 207, 11>>, <<147, 9, 255, 157>>, <<10, 0, 174, 39>>, <<125, 7, 158, 177>>,
    <<240, 15, 147, 68>>, <<135, 8, 163, 210>>, <<30, 1, 242, 104>>, <<105, 6, 194, 254>>,
    <<247, 98, 87, 93>>, <<128, 101, 103, 203>>, <<25, 108, 54, 113>>, <<110, 107, 6, 231>>,
    <<254, 212, 27, 118>>, <<137, 211, 43, 224>>, <<16, 218, 122, 90>>, <<103, 221, 74, 204>>,
    <<249, 185, 223, 111>>, <<142, 190, 239, 249>>, <<23, 183, 190, 67>>, <<96, 176, 142, 213>>,
    <<214, 214, 163, 232>>, <<161, 209, 147, 126>>, <<56, 216, 194, 196>>, <<79, 223, 242, 82>>,
    <<209, 187, 103, 241>>, <<166, 188, 87, 103>>, <<63, 181, 6, 221>>, <<72, 178, 54, 75>>,
    <<216, 13, 43, 218>>, <<175, 10, 27, 76>>, <<54, 3, 74, 246>>, <<65, 4, 122, 96>>,
    <<223, 96, 239, 195>>, <<168, 103, 223, 85>>, <<49, 110, 142, 239>>, <<70, 105, 190, 121>>,
    <<203, 97, 179, 140>>, <<188, 102, 131, 26>>, <<37, 111, 210, 160>>, <<82, 104, 226, 54>>,
    <<204, 12, 119, 149>>, <<187, 11, 71, 3>>, <<34, 2, 22, 185>>, <<85, 5, 38, 47>>,
    <<197, 186, 59, 190>>, <<178, 189, 11, 40>>, <<43, 180, 90, 146>>, <<92, 179, 106, 4>>,
    <<194, 215, 255, 167>>, <<181, 208, 207, 49>>, <<44, 217, 158, 139>>, <<91, 222, 174, 29>>,
    <<155, 100, 194, 176>>, <<236, 99, 242, 38>>, <<117, 106, 163, 156>>, <<2, 109, 147, 10>>,
    <<156, 9, 6, 169>>, <<235, 14, 54, 63>>, <<114, 7, 103, 133>>, <<5, 0, 87, 19>>,
    <<149, 191, 74, 130>>, <<226, 184, 122, 20>>, <<123, 177, 43, 174>>, <<12, 182, 27, 56>>,
    <<146, 210, 142, 155>>, <<229, 213, 190, 13>>, <<124, 220, 239, 183>>, <<11, 219, 223, 33>>,
    <<134, 211, 210, 212>>, <<241, 212, 226, 66>>, <<104, 221, 179, 248>>, <<31, 218, 131, 110>>,
    <<129, 190, 22, 205>>, <<246, 185, 38, 91>>, <<111, 176, 119, 225>>, <<24, 183, 71, 119>>,
    <<136, 8, 90, 230>>, <<255, 15, 106, 112>>, <<102, 6, 59, 202>>, <<17, 1, 11, 92>>,
    <<143, 101, 158, 255>>, <<248, 98, 174, 105>>, <<97, 107, 255, 211>>, <<22, 108, 207, 69>>,
    <<160, 10, 226, 120>>, <<215, 13, 210, 238>>, <<78, 4, 131, 84>>, <<57, 3, 179, 194>>,
    <<167, 103, 38, 97>>, <<208, 96, 22, 247>>, <<73, 105, 71, 77>>, <<62, 110, 119, 219>>,
    <<174, 209, 106, 74>>, <<217, 214, 90, 220>>, <<64, 223, 11, 102>>, <<55, 216, 59, 240>>,
    <<169, 188, 174, 83>>, <<222, 187, 158, 197>>, <<71, 178, 207, 127>>, <<48, 181, 255, 233>>,
    <<189, 189, 242, 28>>, <<202, 186, 194, 138>>, <<83, 179, 147, 48>>, <<36, 180, 163, 166>>,
    <<186, 208, 54, 5>>, <<205, 215, 6, 147>>, <<84, 222, 87, 41>>, <<35, 217, 103, 191>>,
    <<179, 102, 122, 46>>, <<196, 97, 74, 184>>, <<93, 104, 27, 2>>, <<42, 111, 43, 148>>,
    <<180, 11, 190, 55>>, <<195, 12, 142, 161>>, <<90, 5, 223, 27>>, <<45, 2, 239, 141>> >>

\* a ^ b, bit by bit
RECURSIVE BitXor(_, _)
BitXor(a, b) ==
    IF a = 0 THEN b
    ELSE IF b = 0 THEN a
    ELSE ((a + b) % 2) + 2 * BitXor(a \div 2, b \div 2)

\* a ^ b on two bytes: Xor8[a][b]
Xor8 == [a \in 0..255 |-> [b \in 0..255 |-> BitXor(a, b)]]

\* the for loop of crc32 over bytes[lo..hi], the left half first
RECURSIVE crc32_loop(_, _, _, _)
crc32_loop(bytes, lo, hi, state) ==
    IF lo > hi THEN state
    ELSE IF lo = hi
    THEN LET index == Xor8[state[4]][bytes[lo]]
             t == crctab[index + 1]
         IN <<t[1], Xor8[t[2]][state[1]], Xor8[t[3]][state[2]], Xor8[t[4]][state[3]]>>
    ELSE LET mid == (lo + hi) \div 2
             left == crc32_loop(bytes, lo, mid, state)
         IN IF left \in Seq(Nat) THEN crc32_loop(bytes, mid + 1, hi, left) ELSE state

\* crc32(bytes, state)
crc32(bytes, state) == crc32_loop(bytes, 1, Len(bytes), state)

\* bytes(n) of Python 3: n zero bytes
bytes(n) == [i \in 1..n |-> 0]

\* firmware.crcpad
crcpad == <<255, 255, 255, 255>>

\* len(range(start, stop, step))
RangeLen_floor(start, stop, step) ==
    IF stop <= start THEN 0 ELSE (stop - start) \div step

RangeLen(start, stop, step) ==
    IF stop <= start THEN 0 ELSE (stop - start + step - 1) \div step

\* the for loop of firmware.crc: n more rounds of crc32(crcpad, state)
RECURSIVE CrcPadRounds(_, _)
CrcPadRounds(state, n) ==
    IF n = 0 THEN state ELSE CrcPadRounds(crc32(crcpad, state), n - 1)

\* firmware.crc(padlen)
firmware_crc(image, padlen) ==
    CrcPadRounds(crc32(image, <<0, 0, 0, 0>>), RangeLen(Len(image), padlen - 1, 4))

\* the condition of the padding loops
NeedsPad_odd(image) == Len(image) % 2 # 0

NeedsPad(image) == Len(image) % 4 # 0

\* byte strings of length 0..n over the bytes of B
ByteStrings(B, n) == UNION {[1..k -> B] : k \in 0..n}

\* the orchestrator and one transport before anything has run
InitHost ==
    /\ run_pc = "start"
    /\ skip_cube_update = FALSE
    /\ auto_yes = FALSE
    /\ exit_code = -1
    /\ monitoring_started = FALSE
    /\ devices = <<>>
    /\ cube_devices = <<>>
    /\ submitted = 0
    /\ wpc = <<>>
    /\ wres = <<>>
    /\ collected = {}
    /\ success_count = 0
    /\ update_result = "none"
    /\ handles = [p \in Ports |-> {}]
    /\ InitTransport
    /\ monitor = Monitor(FALSE)

\* firmware.__init__ after the two zlib.decompress calls: the decompressed
\* strings are kept beside the attributes the loops extend
InitFw ==
    /\ \E img \in ByteStrings({1, 255}, MaxImage), has \in BOOLEAN :
       \E ext \in (IF has THEN ByteStrings({255}, MaxExtf) ELSE {<<>>}) :
          fw = [pc |-> "pad_image", decompressed |-> img, image |-> img,
                has_extf |-> has, decompressed_extf |-> ext, extf_image |-> ext,
                crc_padlen |-> -1, crc_value |-> <<0, 0, 0, 0>>]
    /\ up = [pc |-> "none"]
    /\ console_buffer = <<>>
    /\ console_pending = <<>>
    /\ console_seq = 0
    /\ display = [active |-> FALSE]
    /\ InitHost

FwFrame ==
    UNCHANGED <<varsA, varsReg, drv, up, console_buffer, console_pending,
                console_seq, monitor, display>>

\* while (len(self.image) % 4) != 0: self.image += bytes(0xFF)
FwPadImage ==
    /\ fw.pc = "pad_image"
    /\ IF NeedsPad(fw.image)
       THEN /\ Len(fw.image) <= MaxLoaded
            /\ fw' = [fw EXCEPT !.image = @ \o bytes(255)]
       ELSE fw' = [fw EXCEPT !.pc = "pad_extf"]
    /\ FwFrame

\* if self.extf_image is not None: the same loop on extf_image
FwPadExtf ==
    /\ fw.pc = "pad_extf"
    /\ IF fw.has_extf /\ NeedsPad(fw.extf_image)
       THEN /\ Len(fw.extf_image) <= MaxLoaded
            /\ fw' = [fw EXCEPT !.extf_image = @ \o bytes(255)]
       ELSE fw' = [fw EXCEPT !.pc = "loaded"]
    /\ FwFrame

\* a call of fw.crc(padlen) on the loaded bundle
FwCrc(padlen) ==
    /\ fw.pc = "loaded"
    /\ padlen >= 0
    /\ fw' = [fw EXCEPT !.crc_padlen = padlen,
                        !.crc_value = firmware_crc(fw.image, padlen)]
    /\ FwFrame

NextFw ==
    \/ FwPadImage
    \/ FwPadExtf
    \/ \E d \in {-4, 0, 2} \cup {4 * k : k \in 1..MaxPadWords} : FwCrc(Len(fw.image) + d)

SpecFw == InitFw /\ [][NextFw]_vars

\* the constructor is straight-line code: a loop that can run does run
SpecFwLive == SpecFw /\ WF_vars(FwPadImage) /\ WF_vars(FwPadExtf)

(***************************************************************************)
(* The console buffer (progress_ui.py, ProgressUI.add_console_output).     *)
(* A line is a sequence of characters.  Each line of the buffer is kept    *)
(* together with the number of its arrival, the order in which the calls   *)
(* took the lock.                                                          *)
(***************************************************************************)
\* lines appended to the console in one run
MaxLines == 102

\* ProgressUI.max_buffer_lines
max_buffer_lines == 100

\* threads that write to the console
ConsoleThreads == {"main", "worker"}

\* str.strip()
RECURSIVE strip(_)
strip(s) ==
    IF s = <<>> THEN s
    ELSE IF Head(s) \in {" ", "\n"} THEN strip(Tail(s))
    ELSE IF s[Len(s)] \in {" ", "\n"} THEN strip(SubSeq(s, 1, Len(s) - 1))
    ELSE s

\* buffer[:n], and buffer[-n:] of a buffer longer than n
LastLines_first(buffer, n) == SubSeq(buffer, 1, n)

LastLines(buffer, n) == SubSeq(buffer, Len(buffer) - n + 1, Len(buffer))

InitUI ==
    /\ fw = [pc |-> "none"]
    /\ up = [pc |-> "none"]
    /\ console_buffer = <<>>
    /\ console_pending = [t \in ConsoleThreads |-> <<>>]
    /\ console_seq = 0
    /\ display = [active |-> FALSE]
    /\ InitHost

\* add_console_output up to the lock: a blank line is dropped, another line
\* waits for the lock
ConsoleCall(t, line) ==
    /\ console_pending[t] = <<>>
    /\ console_pending' = IF strip(line) # <<>>
                          THEN [console_pending EXCEPT ![t] = line]
                          ELSE console_pending
    /\ UNCHANGED <<varsA, varsReg, drv, fw, up, console_buffer, console_seq, monitor, display>>

\* add_console_output under the lock: append, then keep the last
\* max_buffer_lines lines (the refresh that follows reads the buffer only)
ConsoleAppend(t) ==
    /\ console_pending[t] # <<>>
    /\ console_seq < MaxLines
    /\ LET appended == Append(console_buffer, <<strip(console_pending[t]), console_seq + 1>>)
       IN console_buffer' = IF Len(appended) > max_buffer_lines
                            THEN LastLines(appended, max_buffer_lines)
                            ELSE appended
    /\ console_seq' = console_seq + 1
    /\ console_pending' = [console_pending EXCEPT ![t] = <<>>]
    /\ UNCHANGED <<varsA, varsReg, drv, fw, up, monitor, display>>

NextUI ==
    \/ \E t \in ConsoleThreads, line \in {<<" ", "\n">>, <<" ", "x", "\n">>} :
          ConsoleCall(t, line)
    \/ \E t \in ConsoleThreads : ConsoleAppend(t)

SpecUI == InitUI /\ [][NextUI]_vars

(***************************************************************************)
(* The bootloader client (uploader.py, uploader.upload) after identify().  *)
(* up.sent lists the commands written to the port, each with its payload;  *)
(* every command can fail (no sync, timeout), which raises out of upload.  *)
(***************************************************************************)
\* uploader.PROG_MULTI_MAX and READ_MULTI_MAX
PROG_MULTI_MAX == 252

\* the firmware board_id each board_type also accepts
compatible_IDs == [b \in {33} |-> 9]

\* upload: the board check passes
BoardAccepted_any(board_type, board_id, force) == TRUE

BoardAccepted(board_type, board_id, force) ==
    \/ board_type = board_id
    \/ board_type \in DOMAIN compatible_IDs /\ compatible_IDs[board_type] = board_id
    \/ force

\* the image as firmware.__init__ leaves it
RECURSIVE Padded(_)
Padded(image) == IF NeedsPad(image) THEN Padded(image \o bytes(255)) ELSE image

\* uploader.__split_len
split_len_short(seq, length) ==
    [k \in 1..((Len(seq) + length - 3) \div (length - 2)) |->
       SubSeq(seq, (k - 1) * (length - 2) + 1,
              IF k * (length - 2) < Len(seq) THEN k * (length - 2) ELSE Len(seq))]

split_len(seq, length) ==
    [k \in 1..((Len(seq) + length - 1) \div length) |->
       SubSeq(seq, (k - 1) * length + 1,
              IF k * length < Len(seq) THEN k * length ELSE Len(seq))]

\* what upload does once the verification has answered
AfterVerify_ignore(ok) == "finish"

AfterVerify(ok) == IF ok THEN "finish" ELSE "failed"

\* a loaded bundle and an uploader that has identified its board
InitUp ==
    /\ \E n \in {0, 1, 4, 256}, has \in BOOLEAN, id \in {9, 140} :
          fw = [pc |-> "loaded", board_id |-> id,
                image_size |-> n, image |-> Padded([i \in 1..n |-> i % 251]),
                has_extf |-> has, extf_image_size |-> IF has THEN 256 ELSE 0,
                extf_image |-> IF has THEN Padded([i \in 1..256 |-> (256 - i) % 251])
                               ELSE <<>>]
    /\ \E bt \in {33, 140}, rev \in {2, 3}, fmax \in {4, 2048}, emax \in {0, 2048},
          fe \in BOOLEAN, f \in BOOLEAN, bd \in BOOLEAN :
          up = [pc |-> "upload", board_type |-> bt, bl_rev |-> rev,
                fw_maxsize |-> fmax, extf_maxsize |-> emax, force_erase |-> fe,
                force |-> f, has_boot_delay |-> bd, sent |-> <<>>, k |-> 0,
                error |-> ""]
    /\ console_buffer = <<>>
    /\ console_pending = <<>>
    /\ console_seq = 0
    /\ display = [active |-> FALSE]
    /\ InitHost

\* the uploader after writing command cmd with payload data: it goes on to
\* position pc when the device answers in sync and raises otherwise
Sent(cmd, data, ok, pc, k) ==
    [up EXCEPT !.sent = Append(@, [cmd |-> cmd, data |-> data]),
               !.pc = IF ok THEN pc ELSE "failed",
               !.k = k,
               !.error = IF ok THEN "" ELSE "no sync"]

\* where upload goes after the external flash
MainStage == IF fw.image_size > 0 THEN "erase" ELSE "finish"

\* upload: the board check and the size check
UpCheck ==
    /\ up.pc = "upload"
    /\ up' = IF ~BoardAccepted(up.board_type, fw.board_id, up.force)
             THEN [up EXCEPT !.pc = "failed", !.error = "Firmware not suitable for this board"]
             ELSE IF up.fw_maxsize < fw.image_size \/ up.extf_maxsize < fw.extf_image_size
             THEN [up EXCEPT !.pc = "failed", !.error = "Firmware image is too large for this board"]
             ELSE [up EXCEPT !.pc = IF fw.extf_image_size > 0 THEN "extf_erase" ELSE MainStage]
    /\ UNCHANGED <<varsA, varsReg, drv, fw, console_buffer, console_pending, console_seq, monitor, display>>

\* upload: erase_extflash, __program_extf, __verify_extf
UpExtf(ok) ==
    /\ up.pc \in {"extf_erase", "extf_program", "extf_verify"}
    /\ LET groups == split_len(fw.extf_image, PROG_MULTI_MAX)
       IN up' = CASE up.pc = "extf_erase" ->
                       Sent("EXTF_ERASE", <<>>, ok, "extf_program", 0)
                  [] up.pc = "extf_program" /\ up.k < Len(groups) ->
                       Sent("EXTF_PROG_MULTI", groups[up.k + 1], ok,
                            IF up.k + 1 < Len(groups) THEN "extf_program" ELSE "extf_verify",
                            up.k + 1)
                  [] up.pc = "extf_program" /\ up.k >= Len(groups) ->
                       [up EXCEPT !.pc = "extf_verify"]
                  [] OTHER ->
                       [Sent("EXTF_GET_CRC", <<>>, ok, MainStage, 0)
                          EXCEPT !.error = IF ok THEN "" ELSE "Program CRC failed"]
    /\ UNCHANGED <<varsA, varsReg, drv, fw, console_buffer, console_pending, console_seq, monitor, display>>

\* upload: __erase, __program, then __verify_v2 (bl_rev 2) or __verify_v3; a
\* chunk that differs makes __verify_multi add a str and a bytes object, which
\* raises before "Verification failed" can be raised
UpMain(ok) ==
    /\ up.pc \in {"erase", "program", "verify", "verify_read"}
    /\ LET groups == split_len(fw.image, PROG_MULTI_MAX)
       IN up' = CASE up.pc = "erase" ->
                       Sent(IF up.force_erase THEN "CHIP_FULL_ERASE" ELSE "CHIP_ERASE",
                            <<>>, ok, "program", 0)
                  [] up.pc = "program" /\ up.k < Len(groups) ->
                       Sent("PROG_MULTI", groups[up.k + 1], ok,
                            IF up.k + 1 < Len(groups) THEN "program" ELSE "verify",
                            up.k + 1)
                  [] up.pc = "program" /\ up.k >= Len(groups) ->
                       [up EXCEPT !.pc = "verify"]
                  [] up.pc = "verify" /\ up.bl_rev = 2 ->
                       Sent("CHIP_VERIFY", <<>>, ok,
                            IF Len(groups) > 0 THEN "verify_read" ELSE AfterVerify(TRUE), 0)
                  [] up.pc = "verify" /\ up.bl_rev # 2 ->
                       [Sent("GET_CRC", <<>>, TRUE, AfterVerify(ok), 0)
                          EXCEPT !.error = IF ok THEN "" ELSE "Program CRC failed"]
                  [] OTHER ->
                       [Sent("READ_MULTI", <<>>, TRUE,
                             IF ok /\ up.k + 1 < Len(groups) THEN "verify_read"
                             ELSE AfterVerify(ok),
                             up.k + 1)
                          EXCEPT !.error = IF ok THEN "" ELSE "TypeError"]
    /\ UNCHANGED <<varsA, varsReg, drv, fw, console_buffer, console_pending, console_seq, monitor, display>>

\* upload: __set_boot_delay when a delay is given, then __reboot (which waits
\* for the device's answer from bl_rev 3 on)
UpFinish(ok) ==
    /\ up.pc \in {"finish", "reboot"}
    /\ up' = IF up.pc = "finish" /\ up.has_boot_delay
             THEN Sent("SET_BOOT_DELAY", <<>>, ok, "reboot", 0)
             ELSE Sent("REBOOT", <<>>, ok \/ up.bl_rev < 3, "done", 0)
    /\ UNCHANGED <<varsA, varsReg, drv, fw, console_buffer, console_pending, console_seq, monitor, display>>

NextUp ==
    \/ UpCheck
    \/ \E ok \in BOOLEAN : UpExtf(ok)
    \/ \E ok \in BOOLEAN : UpMain(ok)
    \/ \E ok \in BOOLEAN : UpFinish(ok)

SpecUp == InitUp /\ [][NextUp]_vars

(***************************************************************************)
(* Stopping (main.py, DroneCaNMonitor.start_monitoring / stop_monitoring). *)
(* The update threads and the threads of the transport are daemon threads: *)
(* they run until the process exits.                                       *)
(***************************************************************************)
\* DroneCANNode.stop_monitoring: pass (node.close() is called by
\* DroneCANNode.stop only, which the stop path does not call)
DroneCANNode_stop_monitoring(m) == m

\* start_monitoring reaches its loop: self.running = True
MonitorRun ==
    /\ monitor.alive /\ ~monitor.stop /\ ~monitor.running
    /\ run_pc = "monitoring"
    /\ callbacks /\ immediate_done
    /\ monitor' = [monitor EXCEPT !.running = TRUE]
    /\ UNCHANGED <<varsA, varsReg, drv, fw, up, console_buffer, console_pending, console_seq, display>>

\* KeyboardInterrupt in the main thread: the loop's except clause clears the
\* flag, and outside the loop run's except clause calls stop_monitoring, which
\* clears it and calls stop_monitoring of every transport
Interrupt ==
    /\ monitor.alive /\ ~monitor.stop
    /\ run_pc = "monitoring"
    /\ monitor' = IF monitor.running
                  THEN [monitor EXCEPT !.running = FALSE, !.stop = TRUE]
                  ELSE DroneCANNode_stop_monitoring(
                          [monitor EXCEPT !.running = FALSE, !.stop = TRUE])
    /\ UNCHANGED <<varsA, varsReg, drv, fw, up, console_buffer, console_pending, console_seq, display>>

\* run has returned: the interpreter exits and the daemon threads end with it
ProcessExit ==
    /\ monitor.alive
    /\ run_pc = "returned"
    /\ monitor' = [monitor EXCEPT !.alive = FALSE]
    /\ UNCHANGED <<varsA, varsReg, drv, fw, up, console_buffer, console_pending, console_seq, display>>

\* the steps of the program's own threads while the process is alive
StopProgramSteps ==
    \/ monitor.alive /\ CleanupStaleNodes
    \/ monitor.alive /\ ~monitor.stop /\ InstallCallbacks
    \/ monitor.alive /\ ~monitor.stop /\ StartImmediateUpdates
    \/ monitor.alive /\ \E i \in DOMAIN drv : DrvStart(i)
    \/ monitor.alive /\ \E i \in DOMAIN drv : DrvOperationalWaitEnd(i)
    \/ monitor.alive /\ \E i \in DOMAIN drv : DrvVersionCheck(i)
    \/ monitor.alive /\ \E i \in DOMAIN drv : DrvMaintRestart(i)
    \/ monitor.alive /\ \E i \in DOMAIN drv : DrvMaintEnd(i)
    \/ monitor.alive /\ \E i \in DOMAIN drv : DrvPeriodicRequest(i)
    \/ monitor.alive /\ \E i \in DOMAIN drv : DrvWaitTimeout(i)
    \/ monitor.alive /\ \E i \in DOMAIN drv : DrvWaitDone(i)
    \/ monitor.alive /\ \E i \in DOMAIN drv : BootloaderPeriodicRequest(i)
    \/ monitor.alive /\ \E i \in DOMAIN drv : BootloaderWaitEnd(i)
    \/ MonitorRun
    \/ monitor.stop /\ RunMonitoringReturn
    \/ ProcessExit

\* the stop specification follows one peer that answers from one node id
NextStop ==
    \/ StopProgramSteps
    \/ Interrupt
    \/ monitor.alive /\ \E n \in {CHOOSE x \in NodeIds : TRUE}, u \in DrvUIDs, name \in DrvNames,
                           sw \in SoftwareVersions :
          /\ Len(recs) < DrvRecs \/ FindByUniqueId(u) # {}
          /\ NodeInfoReply(n, u, name, sw)
    \/ monitor.alive /\ \E dt \in DrvDeltas : Tick(dt)
    \/ monitor.alive /\ \E i \in DOMAIN drv, mode \in Modes :
          \E th \in SpinningThreads(drv[i]) :
             NodeStatus(i, HandlerSource(drv[i]), mode,
                        IF mode = "SOFTWARE_UPDATE" THEN FirmwareKB + 1 ELSE 0, th)
    \/ monitor.alive /\ \E i \in DOMAIN drv :
          LogMessage(i, HandlerSource(drv[i]), "Bootloader Flash ok")

\* threads that can take a step do take one; frames, time and the interrupt
\* come from outside
SpecStop == InitPhaseB /\ [][NextStop]_vars /\ WF_vars(StopProgramSteps)

(***************************************************************************)
(* The rows of the progress display over a whole run: Phase A writes the   *)
(* rows of the cubes, and the update threads of Phase B write the rows of  *)
(* the peers.  Phase B is followed after a skipped Phase A, without the    *)
(* --yes option (the rows of the cubes are not written any more once Phase *)
(* A is over, and Phase B reads neither them nor the option).              *)
(***************************************************************************)
NextRows ==
    \/ NextA
    \/ /\ run_pc = "monitoring"
       /\ skip_cube_update
       /\ ~auto_yes
       /\ NextDrv

SpecRows == InitA /\ [][NextRows]_vars

(***************************************************************************)
(* The unified display (progress_ui.py): the callers of _refresh_display,  *)
(* its throttle and _render_unified_display.  What a caller does under     *)
(* ProgressUI.lock is one step; the throttle is read and written, and the  *)
(* rows of the snapshot are read, outside the lock.  Times are in          *)
(* milliseconds.                                                           *)
(***************************************************************************)
\* ProgressUI._refresh_throttle
refresh_throttle == 100

\* console lines added while the display is followed
MaxDisplayLines == 2

\* steps of half a throttle period the clock makes
MaxDisplayTicks == 3

\* ProgressUI.__init__, with the clock at the start of the program
InitDisplay ==
    /\ fw = [pc |-> "none"]
    /\ up = [pc |-> "none"]
    /\ console_buffer = <<>>
    /\ console_pending = <<>>
    /\ console_seq = 0
    /\ InitHost
    /\ display = [active |-> FALSE,
                  time |-> Epoch * 1000,
                  last_refresh_time |-> 0,
                  pc |-> [t \in ConsoleThreads |-> "idle"],
                  current_time |-> [t \in ConsoleThreads |-> 0],
                  snapshot |-> [t \in ConsoleThreads |-> <<>>],
                  renders |-> <<>>,
                  shown |-> <<>>,
                  history |-> {[lines |-> <<>>, rows |-> <<>>]}]

\* start_progress_display, called by BatchFirmwareUpdater.__init__: the first
\* render is started without the throttle
StartProgressDisplay ==
    /\ ~display.active
    /\ display.pc["main"] = "idle"
    /\ display' = [display EXCEPT !.active = TRUE, !.pc["main"] = "render"]
    /\ UNCHANGED <<varsA, varsReg, drv, fw, up, console_buffer, console_pending,
                   console_seq, monitor>>

\* add_dronecan_device (no refresh), add_console_output and
\* update_dronecan_progress up to the release of the lock, by thread t
DisplayCall(t, op, id, row) ==
    /\ display.pc[t] = "idle"
    /\ CASE op = "add" ->
              /\ id \notin DOMAIN dronecan_devices
              /\ dronecan_devices' = add_dronecan_device(dronecan_devices, id, "queued")
              /\ UNCHANGED <<console_buffer, console_seq>>
         [] op = "console" ->
              /\ console_seq < MaxDisplayLines
              /\ LET appended == Append(console_buffer, <<(<<"x">>), console_seq + 1>>)
                 IN console_buffer' = IF Len(appended) > max_buffer_lines
                                      THEN LastLines(appended, max_buffer_lines)
                                      ELSE appended
              /\ console_seq' = console_seq + 1
              /\ UNCHANGED dronecan_devices
         [] op = "row" ->
              /\ id \in DOMAIN dronecan_devices
              /\ dronecan_devices[id].progress < row.progress
              /\ dronecan_devices' =
                    update_dronecan_progress(dronecan_devices, id, row.status, row.progress)
              /\ UNCHANGED <<console_buffer, console_seq>>
    /\ display' = [display EXCEPT
                     !.pc[t] = IF op = "add" THEN "idle" ELSE "refresh",
                     !.history = @ \cup {[lines |-> console_buffer',
                                          rows |-> dronecan_devices']}]
    /\ UNCHANGED <<varsA, now, ticks, recs, discovered_nodes, processed_nodes, callbacks,
                   immediate_done, new_peer_events, removed_events, node_log_last,
                   drv, fw, up, console_pending, monitor>>

\* _refresh_display by thread t: the test of the throttle, and then the
\* assignment to _last_refresh_time
RefreshDisplay(t) ==
    /\ \/ /\ display.pc[t] = "refresh"
          /\ display' =
               IF display.active
                     /\ ~(display.time - display.last_refresh_time < refresh_throttle)
               THEN [display EXCEPT !.pc[t] = "passed", !.current_time[t] = display.time]
               ELSE [display EXCEPT !.pc[t] = "idle"]
       \/ /\ display.pc[t] = "passed"
          /\ display' = [display EXCEPT !.pc[t] = "render",
                                        !.last_refresh_time = display.current_time[t],
                                        !.current_time[t] = 0]
    /\ UNCHANGED <<varsA, varsReg, drv, fw, up, console_buffer, console_pending,
                   console_seq, monitor>>

\* _render_unified_display by thread t: the snapshot under the lock (the
\* console lines, and a dict of the DeviceStatus objects themselves), and then
\* the output, which reads progress and status off those objects
RenderUnifiedDisplay(t) ==
    /\ \/ /\ display.pc[t] = "render"
          /\ display' = [display EXCEPT
                           !.pc[t] = "print",
                           !.snapshot[t] = [lines |-> console_buffer,
                                            keys |-> DOMAIN dronecan_devices]]
       \/ /\ display.pc[t] = "print"
          /\ display' = [display EXCEPT
                           !.pc[t] = "idle",
                           !.snapshot[t] = <<>>,
                           !.renders = Append(@, display.time),
                           !.shown = [lines |-> display.snapshot[t].lines,
                                      rows |-> [k \in display.snapshot[t].keys |->
                                                  dronecan_devices[k]]]]
    /\ UNCHANGED <<varsA, varsReg, drv, fw, up, console_buffer, console_pending,
                   console_seq, monitor>>

\* half a throttle period passes
DisplayTick ==
    /\ display.time < Epoch * 1000 + MaxDisplayTicks * (refresh_throttle \div 2)
    /\ display' = [display EXCEPT !.time = @ + refresh_throttle \div 2]
    /\ UNCHANGED <<varsA, varsReg, drv, fw, up, console_buffer, console_pending,
                   console_seq, monitor>>

NextDisplay ==
    \/ StartProgressDisplay
    \/ \E t \in ConsoleThreads, op \in {"add", "console", "row"},
          row \in {Row("connecting", 5), Row("uploading", 20)} :
          DisplayCall(t, op, str_remote_node([node_id |-> RESERVED_NODE_IDS + 5]), row)
    \/ \E t \in ConsoleThreads : RefreshDisplay(t)
    \/ \E t \in ConsoleThreads : RenderUnifiedDisplay(t)
    \/ DisplayTick

SpecDisplay == InitDisplay /\ [][NextDisplay]_vars

(***************************************************************************)
(* The file server of a transport: two peers of one transport that both    *)
(* need an update, each followed up to the point where its update thread   *)
(* has set up the file server (time stands still: each peer reports        *)
(* operational mode before the wait for it is over, and the model stops    *)
(* in the maintenance loop).                                               *)
(***************************************************************************)
\* _perform_dronecan_update constructs a FileServer on manager_node.node
\* between the two "preparing" reports; the update threads past that point
\* are those in the maintenance loop or further (the status handler is added
\* after the loop and never removed)
FileServers == {i \in DOMAIN drv : drv[i].pc = "maint" \/ drv[i].status_handler}

NextFs ==
    \/ \E n \in NodeIds, u \in UIDs, name \in DrvNames, sw \in SoftwareVersions :
          NodeInfoReply(n, u, name, sw)
    \/ InstallCallbacks
    \/ StartImmediateUpdates
    \/ \E i \in DOMAIN drv : DrvStart(i)
    \/ \E i \in DOMAIN drv : DrvOperationalWaitEnd(i)
    \/ \E i \in DOMAIN drv : DrvVersionCheck(i)
    \/ \E i \in DOMAIN drv, src \in NodeIds :
          NodeStatus(i, src, "OPERATIONAL", 0, "other")

SpecFs == InitDrv /\ [][NextFs]_vars

(***************************************************************************)
(* The two find-bootloader loops around one uploader instance:             *)
(* uploader.find_bootloader (uploader.py, used by its command line) and    *)
(* CubeUpdater._find_bootloader (used by the detection pass and by the     *)
(* cube workers, always with the one-element baud list [57600]).           *)
(***************************************************************************)
\* CubeUpdater._find_bootloader: max_attempts, and the attempts that reboot
max_attempts == 10

RebootAttempts == 3

\* uploader.__next_baud_flightstack on index idx of a list of n baud rates;
\* set_ok is whether the assignment of port.baudrate went through
next_baud_flightstack_rewind(idx, n, set_ok) ==
    [idx |-> (idx + 1) % n, ok |-> set_ok]

next_baud_flightstack(idx, n, set_ok) ==
    [idx |-> idx + 1, ok |-> idx + 1 < n /\ set_ok]

\* a fresh uploader instance entering one of the loops
InitFind ==
    /\ \E loop \in {"find_bootloader", "_find_bootloader"} :
       \E n \in (IF loop = "find_bootloader" THEN 1..MaxBauds ELSE {1}) :
          up = [pc |-> "open", loop |-> loop, bauds |-> n,
                baudrate_flightstack_idx |-> -1, port_open |-> FALSE,
                attempt |-> 0, identify_failed |-> 0, reboots |-> 0,
                exhausted |-> FALSE, result |-> "none"]
    /\ fw = [pc |-> "none"]
    /\ console_buffer = <<>>
    /\ console_pending = <<>>
    /\ console_seq = 0
    /\ display = [active |-> FALSE]
    /\ InitHost

\* up.open(): the port is open afterwards unless it could not be opened
\* within 0.2 s
FindOpen(opened) ==
    /\ up.pc = "open"
    /\ up' = [up EXCEPT !.pc = "identify", !.port_open = up.port_open \/ opened]
    /\ UNCHANGED <<varsA, varsReg, drv, fw, console_buffer, console_pending, console_seq, monitor, display>>

\* up.identify(): it returns, or raises (no answer within the read timeout,
\* a wrong answer, or a port that is not open)
FindIdentify(answers) ==
    /\ up.pc = "identify"
    /\ up' = IF up.port_open /\ answers
             THEN [up EXCEPT !.pc = "done", !.result = "true"]
             ELSE [up EXCEPT !.pc = "reboot", !.identify_failed = @ + 1]
    /\ UNCHANGED <<varsA, varsReg, drv, fw, console_buffer, console_pending, console_seq, monitor, display>>

\* the rest of a failed pass: send_reboot (in _find_bootloader only on the
\* first three attempts), close, and the test that ends the loop
FindReboot(set_ok) ==
    /\ up.pc = "reboot"
    /\ LET calls == up.loop = "find_bootloader" \/ up.attempt < RebootAttempts
           nb == next_baud_flightstack(up.baudrate_flightstack_idx, up.bauds, set_ok)
           reboot_sent == calls /\ nb.ok
           over == IF up.loop = "find_bootloader" THEN ~reboot_sent
                   ELSE up.attempt + 1 >= max_attempts
       IN up' = [up EXCEPT !.baudrate_flightstack_idx = IF calls THEN nb.idx ELSE @,
                           !.reboots = IF reboot_sent THEN @ + 1 ELSE @,
                           !.exhausted = @ \/ (calls /\ ~nb.ok),
                           !.port_open = FALSE,
                           !.attempt = @ + 1,
                           !.pc = IF over THEN "done" ELSE "open",
                           !.result = IF over THEN "false" ELSE "none"]
    /\ UNCHANGED <<varsA, varsReg, drv, fw, console_buffer, console_pending, console_seq, monitor, display>>

NextFind ==
    \/ \E opened \in BOOLEAN : FindOpen(opened)
    \/ \E answers \in BOOLEAN : FindIdentify(answers)
    \/ \E set_ok \in BOOLEAN : FindReboot(set_ok)

SpecFind == InitFind /\ [][NextFind]_vars

\* each loop goes on to its next statement (no call in it blocks for ever:
\* open gives up after 0.2 s, every read has a timeout, the sleeps end)
SpecFindLive == SpecFind /\ WF_vars(NextFind)

(***************************************************************************)
(* The erase stages of uploader.upload against a bootloader that may stop  *)
(* responding at any point.  Every read of the port has a 2 s timeout,     *)
(* after which __recv raises RuntimeError.                                 *)
(***************************************************************************)
\* serial.Serial(..., timeout=2.0), in seconds
ReadTimeout == 2

\* __erase: "erase is very slow, give it 20s"
ERASE_TIMEOUT == 20

\* progress bytes the bootloader reports during the erase of the external flash
ErasePcts == {p \in 0..100 : p % PctStep = 0}

\* what a read of the port can bring: the expected bytes, nothing within the
\* timeout, or (after INSYNC) the byte BAD_SILICON_REV
Answers == {"ok", "none", "bad_silicon"}

\* __trySync: True when INSYNC and OK arrive, False on a timeout, and
\* RuntimeError on BAD_SILICON_REV
trySync(silent, answer) ==
    IF silent \/ answer = "none" THEN "false"
    ELSE IF answer = "bad_silicon" THEN "raise" ELSE "true"

\* __getSync and __recv_uint8: anything but the expected bytes raises
InSync(silent, answer) == ~silent /\ answer = "ok"

\* upload has passed its checks and is about to erase
InitErase ==
    /\ \E has_extf \in BOOLEAN, has_image \in BOOLEAN :
          /\ has_extf \/ has_image
          /\ up = [pc |-> IF has_extf THEN "extf_sync" ELSE "erase",
                   has_image |-> has_image, last_pct |-> 0, t |-> 0, silent |-> FALSE]
    /\ fw = [pc |-> "none"]
    /\ console_buffer = <<>>
    /\ console_pending = <<>>
    /\ console_seq = 0
    /\ display = [active |-> FALSE]
    /\ InitHost

\* the bootloader falls silent (power loss, unplugged cable, crash)
EraseSilence ==
    /\ up.pc \notin {"erased", "raised"}
    /\ ~up.silent
    /\ up' = [up EXCEPT !.silent = TRUE]
    /\ UNCHANGED <<varsA, varsReg, drv, fw, console_buffer, console_pending, console_seq, monitor, display>>

\* erase_extflash: EXTF_ERASE is sent and __getSync waits for the answer
ExtfSync(answers) ==
    /\ up.pc = "extf_sync"
    /\ up' = [up EXCEPT !.pc = IF ~InSync(up.silent, answers) THEN "raised" ELSE "extf_loop",
                        !.last_pct = 0]
    /\ UNCHANGED <<varsA, varsReg, drv, fw, console_buffer, console_pending, console_seq, monitor, display>>

\* erase_extflash: one pass of its while True loop
ExtfPoll(answers, pct) ==
    /\ up.pc = "extf_loop"
    /\ up' = IF up.last_pct < 90
             THEN IF ~InSync(up.silent, answers)
                  THEN [up EXCEPT !.pc = "raised"]
                  ELSE [up EXCEPT !.last_pct = pct]
             ELSE CASE trySync(up.silent, answers) = "true" ->
                          [up EXCEPT !.pc = "extf_program", !.last_pct = 0]
                    [] trySync(up.silent, answers) = "raise" ->
                          [up EXCEPT !.pc = "raised"]
                    [] OTHER -> up
    /\ UNCHANGED <<varsA, varsReg, drv, fw, console_buffer, console_pending, console_seq, monitor, display>>

\* __program_extf and __verify_extf: each command is answered in sync, or
\* __getSync raises
ExtfProgramVerify(answers) ==
    /\ up.pc = "extf_program"
    /\ up' = [up EXCEPT !.pc = IF ~InSync(up.silent, answers) THEN "raised"
                               ELSE IF up.has_image THEN "erase" ELSE "erased"]
    /\ UNCHANGED <<varsA, varsReg, drv, fw, console_buffer, console_pending, console_seq, monitor, display>>

\* __erase: one pass of its loop, t seconds after CHIP_ERASE was sent
Erase(answers) ==
    /\ up.pc = "erase"
    /\ up' = IF ~(up.t < ERASE_TIMEOUT)
             THEN [up EXCEPT !.pc = "raised"]
             ELSE CASE trySync(up.silent, answers) = "true" ->
                          [up EXCEPT !.pc = "erased", !.t = 0]
                    [] trySync(up.silent, answers) = "raise" ->
                          [up EXCEPT !.pc = "raised"]
                    [] OTHER -> [up EXCEPT !.t = @ + ReadTimeout]
    /\ UNCHANGED <<varsA, varsReg, drv, fw, console_buffer, console_pending, console_seq, monitor, display>>

NextErase ==
    \/ EraseSilence
    \/ \E answers \in Answers : ExtfSync(answers)
    \/ \E answers \in Answers, pct \in ErasePcts : ExtfPoll(answers, pct)
    \/ \E answers \in Answers : ExtfProgramVerify(answers)
    \/ \E answers \in Answers : Erase(answers)

SpecErase == InitErase /\ [][NextErase]_vars

\* the uploader goes on executing: a pass of a loop that changes its state,
\* or an answer the bootloader can give, eventually happens
SpecEraseLive == SpecErase /\ WF_vars(NextErase)

(***************************************************************************)
(* The lock of ProgressUI (threading.Lock, not reentrant) and the public   *)
(* operations that take it, called from two threads.                       *)
(***************************************************************************)
\* the operations by the way they use the lock: "update" stands for the
\* methods that are one "with self.lock" block (add_cube_device,
\* add_dronecan_device, remove_dronecan_device, register_interface,
\* update_interface_status, update_cube_progress, update_dronecan_progress,
\* print_final_summary)
LockOps == {"update", "display_cube_progress", "display_dronecan_progress",
            "_render_unified_display"}

\* _create_device_tree takes the lock for the title "DroneCAN Devices" only
TreeTakesLock(op) == op \in {"display_dronecan_progress", "_render_unified_display"}

InitLock ==
    /\ fw = [pc |-> "none"]
    /\ up = [pc |-> "none"]
    /\ console_buffer = <<>>
    /\ console_pending = <<>>
    /\ console_seq = 0
    /\ InitHost
    /\ display = [active |-> FALSE, lock |-> "free",
                  op |-> [t \in ConsoleThreads |-> "none"],
                  pc |-> [t \in ConsoleThreads |-> "idle"]]

\* thread t calls an operation and reaches its "with self.lock"
LockCall(t, op) ==
    /\ display.pc[t] = "idle"
    /\ display' = [display EXCEPT !.op[t] = op, !.pc[t] = "acquire"]
    /\ UNCHANGED <<varsA, varsReg, drv, fw, up, console_buffer, console_pending, console_seq, monitor>>

\* Lock.acquire: it returns once the lock is free, whoever holds it
LockAcquire(t) ==
    /\ display.pc[t] \in {"acquire", "tree_acquire"}
    /\ display.lock = "free"
    /\ display' = [display EXCEPT !.lock = t,
                                  !.pc[t] = IF @ = "acquire" THEN "body" ELSE "tree_body"]
    /\ UNCHANGED <<varsA, varsReg, drv, fw, up, console_buffer, console_pending, console_seq, monitor>>

\* the block under the lock: display_dronecan_progress calls
\* _create_device_tree inside it, _render_unified_display after it, the other
\* operations return at its end
LockBody(t) ==
    /\ display.pc[t] = "body"
    /\ display' =
          CASE display.op[t] = "display_dronecan_progress" ->
                  [display EXCEPT !.pc[t] = "tree_acquire"]
            [] display.op[t] = "_render_unified_display" ->
                  [display EXCEPT !.lock = "free", !.pc[t] = "tree_acquire"]
            [] OTHER ->
                  [display EXCEPT !.lock = "free", !.pc[t] = "idle", !.op[t] = "none"]
    /\ UNCHANGED <<varsA, varsReg, drv, fw, up, console_buffer, console_pending, console_seq, monitor>>

\* _create_device_tree: the copy of active_interfaces under the lock, then
\* the table, and the return of the operation
CreateDeviceTree(t) ==
    /\ display.pc[t] = "tree_body"
    /\ display' = [display EXCEPT !.lock = "free", !.pc[t] = "idle", !.op[t] = "none"]
    /\ UNCHANGED <<varsA, varsReg, drv, fw, up, console_buffer, console_pending, console_seq, monitor>>

NextLock ==
    \/ \E t \in ConsoleThreads, op \in LockOps : LockCall(t, op)
    \/ \E t \in ConsoleThreads : LockAcquire(t)
    \/ \E t \in ConsoleThreads : LockBody(t)
    \/ \E t \in ConsoleThreads : CreateDeviceTree(t)

SpecLock == InitLock /\ [][NextLock]_vars

(***************************************************************************)
(* Claims on Phase A and the orchestrator (checked under SpecA).           *)
(***************************************************************************)
\* some step of worker i
WorkerStep(i) ==
    \/ WorkerStart(i)
    \/ \E ok \in BOOLEAN : WorkerLoad(i, ok)
    \/ \E found \in BOOLEAN : WorkerFindBootloader(i, found)
    \/ \E ok \in BOOLEAN : WorkerUploadEnd(i, ok)
    \/ \E ok \in BOOLEAN : WorkerClose(i, ok)

SomeCubeFailed == \E i \in Workers : wres[i] = "false"

\* C4: if Phase A is not skipped and at least one cube update ended failed,
\* run returns exit code 1 and DroneCAN monitoring is never started: a failed
\* worker result excludes monitoring in every later state, and once run has
\* returned its exit code is 1.
C4_FailedCubeStopsBeforePhaseB ==
    (~skip_cube_update /\ SomeCubeFailed) =>
        /\ ~monitoring_started
        /\ run_pc \notin {"phase_b", "monitoring"}
        /\ (run_pc = "returned" => exit_code = 1)

C4_Witness ==
    /\ ~skip_cube_update
    /\ SomeCubeFailed
    /\ \E i \in Workers : wres[i] = "true"
    /\ run_pc = "returned"
    /\ exit_code = 1

\* C5: Phase B never starts while a Phase A worker is still running: when
\* update_devices has returned, and whenever monitoring has been started or is
\* about to be, every submitted worker has reached its terminal result.
C5_PhaseBarrier ==
    /\ update_result # "none" =>
          \A i \in Workers : wpc[i] = "done" /\ wres[i] \in {"true", "false"}
    /\ (monitoring_started \/ run_pc \in {"phase_b", "monitoring"}) =>
          \A i \in Workers : wpc[i] \in {"idle", "done"}

C5_Witness ==
    /\ monitoring_started
    /\ Len(devices) >= 2
    /\ update_result = "true"
    /\ \A i \in Workers : wpc[i] = "done"

C6_Witness ==
    /\ update_result = "false"
    /\ \E i \in Workers : wres[i] = "true" /\ cube_devices[devices[i]].status = "complete"
    /\ \E i \in Workers : wres[i] = "false" /\ cube_devices[devices[i]].status = "failed"

(***************************************************************************)
(* Claims on the peer registry (checked under SpecReg).                    *)
(***************************************************************************)
RegRec(k) == recs[discovered_nodes[k]]

\* C1: in every reachable state of the registry no two records carry the same
\* unique_id, whatever the interleaving of replies, node-id changes and
\* cleanup passes.
C1_OneRecordPerUniqueId ==
    \A k1, k2 \in DOMAIN discovered_nodes :
        RegRec(k1).unique_id = RegRec(k2).unique_id => k1 = k2

\* a node-id change moved a peer onto the node id another peer was indexed under
C1_Witness ==
    /\ node_log_last \in {"requires update", "is up to date"}
    /\ Len(recs) = 2
    /\ recs[1].unique_id # recs[2].unique_id
    /\ Cardinality(DOMAIN discovered_nodes) = 1

\* C3: a step that changes a peer's node id from a to b leaves no row under the
\* old device key, one row under the new device key, and as many rows as the
\* registry has records, each under the key of a record.
NodeIdChanged(i) ==
    /\ i \in DOMAIN recs
    /\ i \in DOMAIN recs'
    /\ recs'[i].node_id # recs[i].node_id

C3_OneRowAfterNodeIdChange ==
    [][\A i \in DOMAIN recs :
          NodeIdChanged(i) =>
             /\ recs'[i].unique_id = recs[i].unique_id
             /\ old_device_id(recs[i], recs[i].node_id) \notin DOMAIN dronecan_devices'
             /\ str_remote_node(recs'[i]) \in DOMAIN dronecan_devices'
             /\ DOMAIN dronecan_devices' =
                   {str_remote_node(recs'[discovered_nodes'[k]]) :
                       k \in DOMAIN discovered_nodes'}
             /\ Cardinality(DOMAIN dronecan_devices') =
                   Cardinality(DOMAIN discovered_nodes')]_vars

\* the last registry line is the one of a node-id change, and the only peer
\* ever seen holds its single row under its current device key
C3_Witness ==
    /\ node_log_last = "requires update"
    /\ Len(recs) = 1
    /\ DOMAIN discovered_nodes = {recs[1].node_id}
    /\ DOMAIN dronecan_devices = {str_remote_node(recs[1])}
    /\ dronecan_devices[str_remote_node(recs[1])].status = "queued"

(***************************************************************************)
(* Claims on the update threads (checked under SpecDrv).                   *)
(***************************************************************************)
Last(q) == q[Len(q)]

\* C2: a reply that carries a known unique_id under another node id keeps the
\* record object (firmware_path, needs_update, device_name, bootloader_state
\* and the rest unchanged; only node_id, last_seen and the index key change),
\* raises no new-peer event and starts no thread, and the handlers of a running
\* update thread match frames from the new node id.
C2_NodeIdChangeKeepsRecord ==
    [][\A i \in DOMAIN recs :
          NodeIdChanged(i) =>
             /\ Len(recs') = Len(recs)
             /\ recs'[i] = [recs[i] EXCEPT !.node_id = recs'[i].node_id,
                                           !.last_seen = now]
             /\ \A j \in DOMAIN recs : j # i => recs'[j] = recs[j]
             /\ discovered_nodes[recs[i].node_id] = i
             /\ recs[i].node_id \notin DOMAIN discovered_nodes'
             /\ discovered_nodes'[recs'[i].node_id] = i
             /\ new_peer_events' = new_peer_events
             /\ drv' = drv
             /\ \A j \in DOMAIN drv :
                   drv[j].rec = i => HandlerSource(drv[j])' = recs'[i].node_id]_vars

\* the registry reported "is up to date" on a node-id change of a peer whose
\* update thread had cleared needs_update and started the bootloader stage
C2_Witness ==
    /\ node_log_last = "is up to date"
    /\ \E j \in DOMAIN drv :
          /\ drv[j].bl # "idle"
          /\ recs[drv[j].rec].firmware_path # <<>>
          /\ ~recs[drv[j].rec].needs_update
          /\ recs[drv[j].rec].bootloader_state # "unset"
          /\ discovered_nodes[recs[drv[j].rec].node_id] = drv[j].rec

\* the version comparison of update thread d found the target version
VersionMatched(d) ==
    /\ d.pc \notin {"start", "op1", "op2"}
    /\ target_version(recs[d.rec].firmware_path) # <<>>
    /\ d.current_version = target_version(recs[d.rec].firmware_path)

C8_CompleteOnlyAfterBootloader ==
    \A i \in DOMAIN drv :
        drv[i].result = "complete" =>
           /\ drv[i].bl = "done"
           /\ recs[drv[i].rec].bootloader_state \in {"unchanged", "updated", "timeout"}
           /\ Len(drv[i].sent) > 0
           /\ Last(drv[i].sent) = "RestartNode"

\* the maintenance wait of a thread ended by its deadline
MaintenanceDeadlineReached(d) == d.status_handler /\ ~d.maintenance_reached

UnderUpdate(k) ==
    \E i \in DOMAIN drv : drv[i].rec = discovered_nodes[k] /\ drv[i].pc # "done"

\* a cleanup pass removes a peer under update whose last reply is older than
\* the staleness threshold
StaleUnderUpdate(k) ==
    /\ k \in DOMAIN discovered_nodes
    /\ IsStale(RegRec(k))
    /\ UnderUpdate(k)
    /\ removed_events' # removed_events

C13_OneHandlePerPort ==
    \A p \in Ports : Cardinality(handles[p]) <= 1

(***************************************************************************)
(* Claims on the firmware bundle (checked under SpecFw and SpecFwLive).    *)
(***************************************************************************)
\* C17: for every bundle the loading terminates, and once the bundle is loaded
\* the length of image is a multiple of 4, and so is the length of extf_image
\* when the bundle has one.
C17_LoadTerminatesAligned ==
    /\ [](fw.pc = "loaded" =>
            /\ Len(fw.image) % 4 = 0
            /\ fw.has_extf => Len(fw.extf_image) % 4 = 0)
    /\ <>(fw.pc = "loaded")

\* both padding loops have run at least once and the bundle is loaded
C17_Witness ==
    /\ fw.pc = "loaded"
    /\ Len(fw.image) > Len(fw.decompressed)
    /\ fw.has_extf
    /\ Len(fw.extf_image) > Len(fw.decompressed_extf)

\* C18: the loaded image equals the decompressed image right-padded with the
\* minimal number (0..3) of 0xFF bytes, and the same holds for extf_image.
C18_PaddedWithFF ==
    fw.pc = "loaded" =>
       LET FF(n) == [i \in 1..n |-> 255]
           Minimal(s) == (4 - (Len(s) % 4)) % 4
       IN /\ fw.image = fw.decompressed \o FF(Minimal(fw.decompressed))
          /\ fw.has_extf =>
               fw.extf_image = fw.decompressed_extf \o FF(Minimal(fw.decompressed_extf))

\* C19: for a loaded (4-aligned) image and a padlen that is a multiple of 4 and
\* not below len(image), crc(padlen) is the table-driven CRC-32 with initial
\* state 0 and no final XOR of the image followed by padlen - len(image) bytes
\* 0xFF.
C19_CrcOfPaddedImage ==
    (/\ fw.pc = "loaded"
     /\ fw.crc_padlen >= Len(fw.image)
     /\ fw.crc_padlen % 4 = 0)
    => fw.crc_value =
         crc32(fw.image \o [i \in 1..(fw.crc_padlen - Len(fw.image)) |-> 255],
               <<0, 0, 0, 0>>)

\* crc was called on a non-empty image with two words of padding
C19_Witness ==
    /\ fw.pc = "loaded"
    /\ Len(fw.image) > 0
    /\ fw.crc_padlen = Len(fw.image) + 8

(***************************************************************************)
(* Claims on the console buffer (checked under SpecUI).                    *)
(***************************************************************************)
\* C20: after any add_console_output, under any interleaving of the callers,
\* the console buffer holds at most 100 lines; when it is full the oldest lines
\* are discarded first and the lines that remain are the latest arrivals in
\* their order of arrival, each stripped.
C20_ConsoleBounded ==
    /\ Len(console_buffer) <= max_buffer_lines
    /\ Len(console_buffer) =
         IF console_seq < max_buffer_lines THEN console_seq ELSE max_buffer_lines
    /\ \A k \in DOMAIN console_buffer :
          console_buffer[k] = <<(<<"x">>), console_seq - Len(console_buffer) + k>>

\* lines have been discarded while another call waits for the lock
C20_Witness ==
    /\ console_seq > max_buffer_lines
    /\ Len(console_buffer) = max_buffer_lines
    /\ \E t \in ConsoleThreads : console_pending[t] # <<>>

(***************************************************************************)
(* Claims on the bootloader client (checked under SpecUp).                 *)
(***************************************************************************)
\* C14: upload programs the device only if the bundle's board_id equals the
\* board_type, or the compatibility table maps the board_type to the board_id,
\* or force is set, and only if image_size <= flash_maxsize and
\* extf_image_size <= extf_maxsize; otherwise it fails before any erase or
\* program command (EXTF_ERASE, CHIP_ERASE, CHIP_FULL_ERASE, PROG_MULTI,
\* EXTF_PROG_MULTI) is sent.
C14_ProgramsOnlySuitableBundle ==
    LET allowed == /\ \/ fw.board_id = up.board_type
                      \/ up.board_type = 33 /\ fw.board_id = 9
                      \/ up.force
                   /\ fw.image_size <= up.fw_maxsize
                   /\ fw.extf_image_size <= up.extf_maxsize
        destructive == {i \in DOMAIN up.sent :
                          up.sent[i].cmd \in {"EXTF_ERASE", "CHIP_ERASE", "CHIP_FULL_ERASE",
                                              "PROG_MULTI", "EXTF_PROG_MULTI"}}
    IN /\ destructive # {} => allowed
       /\ (~allowed /\ up.pc # "upload") => (up.pc = "failed" /\ up.sent = <<>>)

\* a board of the compatibility table is programmed without force
C14_Witness ==
    /\ up.board_type = 33
    /\ fw.board_id = 9
    /\ ~up.force
    /\ \E i \in DOMAIN up.sent : up.sent[i].cmd = "PROG_MULTI"

\* C15: the main-flash commands of upload are sent in the order erase, program
\* (all chunks), verify, reboot; when the verification fails (the reported CRC
\* differs, or a READ_MULTI chunk differs on bl_rev 2) the attempt fails and
\* neither SET_BOOT_DELAY nor REBOOT is sent.
C15_EraseProgramVerifyReboot ==
    LET cmd(i) == up.sent[i].cmd
        Rank(c) == CASE c \in {"CHIP_ERASE", "CHIP_FULL_ERASE"} -> 1
                     [] c = "PROG_MULTI" -> 2
                     [] c \in {"CHIP_VERIFY", "READ_MULTI", "GET_CRC"} -> 3
                     [] c = "REBOOT" -> 4
                     [] OTHER -> 0
        With(r) == {i \in DOMAIN up.sent : Rank(cmd(i)) = r}
    IN /\ \A i, j \in DOMAIN up.sent :
             (i < j /\ Rank(cmd(i)) > 0 /\ Rank(cmd(j)) > 0) => Rank(cmd(i)) <= Rank(cmd(j))
       /\ With(2) # {} => Cardinality(With(1)) = 1
       /\ With(3) # {} => Cardinality(With(2)) = (Len(fw.image) + 251) \div 252
       /\ (With(4) # {} /\ fw.image_size > 0) => With(3) # {}
       /\ up.error \in {"Program CRC failed", "TypeError"} =>
             /\ up.pc = "failed"
             /\ \A i \in DOMAIN up.sent : cmd(i) \notin {"SET_BOOT_DELAY", "REBOOT"}

\* the CRC of a main flash programmed in two chunks differs and a boot delay
\* was asked for
C15_Witness ==
    /\ up.pc = "failed"
    /\ up.error = "Program CRC failed"
    /\ up.has_boot_delay
    /\ up.sent[Len(up.sent)].cmd = "GET_CRC"
    /\ Cardinality({i \in DOMAIN up.sent : up.sent[i].cmd = "PROG_MULTI"}) = 2

\* C16: every PROG_MULTI and EXTF_PROG_MULTI payload is at least 1 and at most
\* 252 bytes long, a multiple of 4, and the payloads concatenated in the order
\* they were sent are the loaded image: a prefix of it while the programming
\* goes on, all of it once the verification is asked for.
C16_PayloadsAreTheImage ==
    LET RECURSIVE Concat(_)
        Concat(ss) == IF ss = <<>> THEN <<>> ELSE Head(ss).data \o Concat(Tail(ss))
        Payloads(c) == SelectSeq(up.sent, LAMBDA e : e.cmd = c)
        Asked(cs) == \E i \in DOMAIN up.sent : up.sent[i].cmd \in cs
        Holds(c, image, verify) ==
            /\ \A i \in DOMAIN Payloads(c) :
                  /\ Len(Payloads(c)[i].data) >= 1
                  /\ Len(Payloads(c)[i].data) <= 252
                  /\ Len(Payloads(c)[i].data) % 4 = 0
            /\ Concat(Payloads(c)) = SubSeq(image, 1, Len(Concat(Payloads(c))))
            /\ Asked(verify) => Concat(Payloads(c)) = image
    IN /\ Holds("PROG_MULTI", fw.image, {"CHIP_VERIFY", "GET_CRC"})
       /\ Holds("EXTF_PROG_MULTI", fw.extf_image, {"EXTF_GET_CRC"})

\* both regions were programmed in more than one chunk and the device rebooted
C16_Witness ==
    /\ up.pc = "done"
    /\ Cardinality({i \in DOMAIN up.sent : up.sent[i].cmd = "PROG_MULTI"}) = 2
    /\ Cardinality({i \in DOMAIN up.sent : up.sent[i].cmd = "EXTF_PROG_MULTI"}) = 2

(***************************************************************************)
(* Claims on stopping (checked under SpecStop).                            *)
(***************************************************************************)
\* C11: after the stop was requested every update thread that is in progress
\* eventually ends failed (reason cancelled).
C11_DriversCancelledAfterStop ==
    \A i \in 1..DrvRecs :
       (monitor.stop /\ i \in DOMAIN drv /\ drv[i].result = "none")
          ~> (i \in DOMAIN drv /\ drv[i].result = "failed")

\* C12: after the stop was requested every worker eventually closes its handle:
\* node.close() is called on the CAN node of each retained transport and no
\* serial port opened by a cube worker stays open.
C12_HandlesClosedAfterStop ==
    monitor.stop ~> (~monitor.node_open /\ \A p \in Ports : handles[p] = {})

C25_TransitionsOnDriverThread ==
    \A i \in DOMAIN drv :
       drv[i].update_complete => drv[i].bl_thread = "driver"

\* C26: no handler invoked from the dispatch of a frame performs a wait; each
\* invocation returns without spinning the node, sleeping or waiting for a
\* deadline.  on_node_status runs while the update thread is in its final
\* wait loop (pc = "wait"); it has not returned as long as the wait loop of
\* _start_bootloader_update that it called is running (bl = "wait").
C26_HandlersDoNotWait ==
    \A i \in DOMAIN drv :
       ~(drv[i].pc = "wait" /\ drv[i].status_handler /\ drv[i].bl = "wait")

C28_RequestsUntilUpdateMode ==
    /\ [][\A i \in 1..DrvRecs :
            (/\ i \in DOMAIN drv
             /\ i \in DOMAIN drv'
             /\ Len(drv'[i].sent) > Len(drv[i].sent)
             /\ drv'[i].sent[Len(drv'[i].sent)] = "BeginFirmwareUpdate")
               => /\ ~drv[i].update_started
                  /\ ~drv'[i].update_started
                  /\ drv'[i].request_due = now + 1]_vars
    /\ [](\A i \in DOMAIN drv :
            (drv[i].status_handler /\ ~drv[i].update_started)
               => (drv[i].request_due > 0 /\ drv[i].request_due <= now + 1))
    /\ \A i \in 1..DrvRecs :
          (/\ i \in DOMAIN drv
           /\ drv[i].status_handler
           /\ ~drv[i].update_started
           /\ now >= drv[i].request_due)
             ~> (/\ i \in DOMAIN drv
                 /\ drv[i].update_started \/ drv[i].request_due = now + 1)

\* the request was sent three times, the last two by the periodic call, and
\* then the peer entered the update mode
C28_Witness ==
    \E i \in DOMAIN drv :
       /\ drv[i].update_started
       /\ SelectSeq(drv[i].sent, LAMBDA m : m = "BeginFirmwareUpdate")
             = <<"BeginFirmwareUpdate", "BeginFirmwareUpdate", "BeginFirmwareUpdate">>

\* C29 as stated: when the update thread stops waiting because more than
\* 1200 s have passed since the start of the request loop without the peer
\* having entered SOFTWARE_UPDATE and returned to OPERATIONAL, it returns
\* failure and the status of the device becomes failed.
C29_TimeoutMarksDeviceFailed ==
    [][\A i \in 1..DrvRecs :
         (/\ i \in DOMAIN drv
          /\ drv[i].pc = "wait" /\ drv'[i].pc = "done"
          /\ ~(drv[i].update_started /\ drv[i].update_complete))
            => /\ drv'[i].result = "failed"
               /\ \E id \in DOMAIN dronecan_devices' :
                     /\ id = str_remote_node(recs[drv[i].rec])
                     /\ dronecan_devices'[id].status = "failed"]_vars

\* C29 amended: the update thread gives up its final wait only when more than
\* 1200 s have passed since the start of the request loop without the peer
\* having entered SOFTWARE_UPDATE and returned to OPERATIONAL; it then returns
\* failure, and the row of the device is set to failed if the device still has
\* one (a peer removed as stale has none).  Past the deadline the thread does
\* give up, unless the update completes first.
C29_TimeoutFailsUpdate ==
    /\ [][\A i \in 1..DrvRecs :
            (/\ i \in DOMAIN drv
             /\ drv[i].pc = "wait" /\ drv'[i].pc = "done"
             /\ ~(drv[i].update_started /\ drv[i].update_complete))
               => /\ now - drv[i].start_wait > 1200
                  /\ drv'[i].result = "failed"
                  /\ \A id \in DOMAIN dronecan_devices :
                        id = str_remote_node(recs[drv[i].rec])
                           => dronecan_devices'[id] = Row("failed", 0)
                  /\ DOMAIN dronecan_devices' = DOMAIN dronecan_devices]_vars
    /\ \A i \in 1..DrvRecs :
          (/\ i \in DOMAIN drv
           /\ drv[i].pc = "wait"
           /\ now - drv[i].start_wait > 1200
           /\ ~(drv[i].update_started /\ drv[i].update_complete))
             ~> (/\ i \in DOMAIN drv
                 /\ \/ drv[i].pc = "done" /\ drv[i].result = "failed"
                    \/ drv[i].update_started /\ drv[i].update_complete)

\* the peer entered SOFTWARE_UPDATE but did not return to OPERATIONAL, and the
\* update thread gave up: its row shows failed
C29_Witness ==
    \E i \in DOMAIN drv :
       /\ drv[i].pc = "done" /\ drv[i].result = "failed"
       /\ drv[i].update_started /\ ~drv[i].update_complete
       /\ \E id \in DOMAIN dronecan_devices :
             /\ id = str_remote_node(recs[drv[i].rec])
             /\ dronecan_devices[id] = Row("failed", 0)

C24_OneDriverPerPeer ==
    \A i, j \in DOMAIN drv :
       (/\ i # j
        /\ drv[i].pc # "done"
        /\ drv[j].pc # "done")
          => recs[drv[i].rec].unique_id # recs[drv[j].rec].unique_id

(***************************************************************************)
(* Claims on the unified display (checked under SpecDisplay).              *)
(***************************************************************************)
\* C21: any two renders of the unified display are at least 100 ms apart,
\* whichever threads call the operations that refresh it.
C21_RendersThrottled ==
    \A k \in 1..(Len(display.renders) - 1) :
       display.renders[k + 1] - display.renders[k] >= 100

\* C22: what a render shows (the console lines, the set of rows and the
\* status and progress of each row) is one state the console buffer and the
\* rows were in together at some instant.
C22_SnapshotConsistent ==
    display.shown # <<>> => display.shown \in display.history

(***************************************************************************)
(* Claims on the registry index and the stale-peer cleanup (SpecReg).      *)
(***************************************************************************)
\* C38: in every reachable registry state each record is indexed under its
\* own node id: for every key k of discovered_nodes the record bound to k has
\* node_id = k, after any sequence of insertions, node-id changes and stale
\* removals.
C38_IndexedUnderOwnNodeId ==
    \A k \in DOMAIN discovered_nodes : recs[discovered_nodes[k]].node_id = k

\* a peer was removed as stale, and the last reply handled was a node-id
\* change of a peer that is still indexed
C38_Witness ==
    /\ removed_events > 0
    /\ node_log_last \in {"requires update", "is up to date"}
    /\ DOMAIN discovered_nodes # {}

\* C31: each cleanup pass removes from the registry exactly the peers with
\* now - last_seen > 20 s, emits one removed-peer event and removes the
\* progress row for each of them, and leaves every peer with
\* now - last_seen <= 20 s bound to its record, all records unchanged.
C31_CleanupRemovesExactlyStale ==
    [][removed_events' # removed_events =>
          LET stale == {k \in DOMAIN discovered_nodes :
                           now - recs[discovered_nodes[k]].last_seen > 20}
          IN /\ DOMAIN discovered_nodes' = (DOMAIN discovered_nodes) \ stale
             /\ removed_events' = removed_events + Cardinality(stale)
             /\ \A k \in stale :
                   str_remote_node(recs[discovered_nodes[k]])
                      \notin DOMAIN dronecan_devices'
             /\ \A k \in (DOMAIN discovered_nodes) \ stale :
                   discovered_nodes'[k] = discovered_nodes[k]
             /\ recs' = recs]_vars

\* a cleanup pass has removed one peer and left another one, which was last
\* seen exactly 20 s before the present time, in the registry with its row
C31_Witness ==
    /\ removed_events = 1
    /\ node_log_last = "removed from allocation due to timeout"
    /\ \E k \in DOMAIN discovered_nodes :
          /\ now - recs[discovered_nodes[k]].last_seen = 20
          /\ str_remote_node(recs[discovered_nodes[k]]) \in DOMAIN dronecan_devices

\* C32: once a peer has been removed as stale, no later GetNodeInfo reply
\* from the same node id creates a new record (or a new-peer event, which
\* only the creation of a record emits), whether the peer was first
\* discovered during the discovery window or after monitoring started.
\* Records are never re-bound once unbound; when the unbound records are as
\* many as the removed-peer events, each of them was removed as stale.
C32_RemovedPeerNotRecreated ==
    [][LET unbound == {i \in DOMAIN recs :
                          \A k \in DOMAIN discovered_nodes : discovered_nodes[k] # i}
       IN \A i \in unbound :
             Cardinality(unbound) = removed_events =>
                ~(/\ Len(recs') > Len(recs)
                  /\ recs'[Len(recs')].node_id = recs[i].node_id)]_vars

\* C33: a GetNodeInfo reply from node id n with unique id U2, handled while
\* the registry holds under n a record with another unique id U1, is a
\* take-over: afterwards the record under n is one for U2, and U1's record
\* did not get its last_seen refreshed by the reply.
C33_ReplyTakesOverNodeId ==
    [][\A n \in NodeIds, u \in UIDs, name \in RegNames, sw \in RegVersions :
          (/\ extract_device_name(name) # <<>>
           /\ n \in DOMAIN discovered_nodes
           /\ recs[discovered_nodes[n]].unique_id # u
           /\ NodeInfoReply(n, u, name, sw))
             => /\ n \in DOMAIN discovered_nodes'
                /\ recs'[discovered_nodes'[n]].unique_id = u
                /\ recs'[discovered_nodes[n]].last_seen =
                      recs[discovered_nodes[n]].last_seen]_vars

(***************************************************************************)
(* Claims on the end of a failed update (checked under SpecDrv).           *)
(***************************************************************************)
\* C37: failed is terminal for a CAN device: once its update has failed (for
\* example by the 1200 s timeout) no later event, such as a late NodeStatus
\* OPERATIONAL, changes the status of its row to bootloader, restarting or
\* complete, or sends a further FLASH_BOOTLOADER or RestartNode request.
C37_FailedIsTerminal ==
    [][\A i \in DOMAIN drv :
          drv[i].result = "failed" =>
             /\ \A id \in (DOMAIN dronecan_devices) \cap (DOMAIN dronecan_devices') :
                   dronecan_devices'[id].status # dronecan_devices[id].status
                      => dronecan_devices'[id].status
                            \notin {"bootloader", "restarting", "complete"}
             /\ Len(drv'[i].sent) > Len(drv[i].sent)
                   => drv'[i].sent[Len(drv'[i].sent)]
                         \notin {"FLASH_BOOTLOADER", "RestartNode"}]_vars

(***************************************************************************)
(* Claims on the file server of a transport (checked under SpecFs).        *)
(***************************************************************************)
\* C34: on a transport the CAN file server is registered at most once, when
\* the first peer needs an update; starting the update of a second peer on
\* the same transport does not register another one.
C34_OneFileServerPerTransport == Cardinality(FileServers) <= 1

C36_EraseTerminates ==
    /\ <>(up.pc \in {"erased", "raised"})
    /\ (up.pc = "extf_loop" /\ up.last_pct >= 90 /\ up.silent)
          ~> (up.pc \in {"extf_program", "raised"})

(***************************************************************************)
(* Claims on the detection pass (checked under SpecA).                     *)
(***************************************************************************)
\* C39: the detection pass records at most one CubeRecord per port path,
\* across rounds and within one round (also when ports_to_try returns a port
\* path more than once because several glob patterns match it), so
\* update_devices never runs two workers on the same port.
C39_OneCubeRecordPerPort ==
    \A i, j \in DOMAIN devices : devices[i] = devices[j] => i = j

(***************************************************************************)
(* Claims on the lock of ProgressUI (checked under SpecLock).              *)
(***************************************************************************)
\* C40: no ProgressUI operation tries to acquire the lock while the same
\* thread already holds it: every public method, display_dronecan_progress
\* and display_cube_progress included, returns (no self-deadlock on the
\* non-reentrant lock).
C40_NoSelfDeadlock ==
    \A t \in ConsoleThreads :
       ~(display.lock = t /\ display.pc[t] \in {"acquire", "tree_acquire"})

====
